---- MODULE Spec2Model ----
(***************************************************************************)
(* The leaderboard's result-selection engine: the leaderboard_results view *)
(* (create_leaderboard_view.sql), the storage layer that maps its rows     *)
(* (server/storage.ts) and the routes that pivot them (server/routes.ts).  *)
(*                                                                         *)
(* Conventions.  A nullable column / an optional field is a set: {} is SQL *)
(* NULL (JS null / undefined), {v} is the value v.  A metric value is kept *)
(* in thousandths (0.45 is 450), so value * 100 is a percentage kept in    *)
(* thousandths of a percent (45% is 45000, the 1.0% threshold is 1000).    *)
(* A timestamp is a number of hours since the epoch (UTC).                 *)
(***************************************************************************)
EXTENDS Integers, Sequences, FiniteSets, TLC

VARIABLES
  scenario,     \* which stored entity graph this deployment holds
  agents,       \* table agents:     [id, name]
  models,       \* table models:     [id, name, agent_id, base_model_id, duplicate_of, creation_time]
  benchmarks,   \* table benchmarks: [id, name, duplicate_of]
  sandbox_jobs, \* table sandbox_jobs: [agent_id, model_id, benchmark_id, metrics, ended_at, created_at]
  serverTz,     \* the server process's offset from UTC, in hours
  lastRequest,  \* the route being answered ("none": no request in progress)
  data,         \* the rows the request's SELECT * FROM leaderboard_results returned
  flatResponse, \* body of the answer to GET /api/benchmark-results
  pivotedResponse,     \* body of the answer to GET /api/leaderboard-pivoted
  improvementResults,  \* what getAllBenchmarkResultsWithImprovement() returned
  improvementResponse, \* body of the answer to GET /api/leaderboard-pivoted-with-improvement
  requestBody,  \* POST /api/benchmark-results: "valid" / "invalid" body ("none": no body)
  storeError,   \* the store read of the request that came back with an error ("none": none did)
  status,       \* HTTP status of the answer (0: no request in progress)
  showDuplicateModels,     \* Leaderboard page: the "Show duplicate models" checkbox
  showDuplicateBenchmarks, \* Leaderboard page: the "Show duplicate benchmarks" checkbox
  pivotedData,  \* Leaderboard page: the rows useQuery delivered ([] before the first load)
  activeTab,    \* Leaderboard page: "filtered" / "all"
  topN,         \* Leaderboard page: the Top N Performers count
  recentN,      \* Leaderboard page: the N Most Recent count
  topPerformerBenchmark,    \* Leaderboard page: the benchmark of the Top N Performers
  selectedBenchmarks,       \* Leaderboard page: the benchmark filter
  hasInitializedBenchmarks, \* Leaderboard page: the ref of the default-selection effect
  fetchedModels, \* a request in steps: what the read of the models table returned
  snapshotAnswers \* a request in steps: for every content the store had since the request
                  \* began, the answers the handler gives when it reads that content alone

\* the stored tables and the server's clock
store == <<scenario, agents, models, benchmarks, sandbox_jobs, serverTz>>

\* what one request reads and answers
request == <<lastRequest, requestBody, storeError, status, data, flatResponse, pivotedResponse,
             improvementResults, improvementResponse>>

\* the view mode and the filters of the Leaderboard page
filters == <<pivotedData, activeTab, topN, recentN, topPerformerBenchmark, selectedBenchmarks,
             hasInitializedBenchmarks>>

\* the state of the Leaderboard page
page == <<showDuplicateModels, showDuplicateBenchmarks, filters>>

\* a handler between its awaits
inflight == <<fetchedModels, snapshotAnswers>>

vars == <<store, request, page, inflight>>

----------------------------------------------------------------------------
(* Nullable values *)

NULL == {}

Some(v) == {v}

Get(o) == CHOOSE v \in o : TRUE

\* SQL COALESCE(a, b) on nullable values
COALESCE(a, b) == IF a # NULL THEN a ELSE b

\* JS  a ?? b  where b is a plain value
Nullish(a, b) == IF a # NULL THEN Get(a) ELSE b

----------------------------------------------------------------------------
(* Bounds of the exploration *)

\* the external writer appends at most this many jobs
MaxJobs == 3

----------------------------------------------------------------------------
(* Metrics: the JSONB array sandbox_jobs.metrics *)

Metric(n, v) == [name |-> n, value |-> v]

NoMetrics       == NULL                                   \* metrics IS NULL
EmptyMetrics    == Some(<< >>)                            \* metrics = '[]'
AccZero         == Some(<<Metric("accuracy", 0)>>)        \* 0%
AccAtThreshold  == Some(<<Metric("accuracy", 10)>>)       \* exactly 1.0%
AccGood         == Some(<<Metric("accuracy", 800), Metric("accuracy_stderr", 20)>>) \* 80% +- 2%
AccBetter       == Some(<<Metric("accuracy", 900)>>)      \* 90%, no stderr

StderrOnly      == Some(<<Metric("accuracy_stderr", 20)>>) \* metrics without accuracy

AllMetrics ==
  {NoMetrics, EmptyMetrics, AccZero, AccAtThreshold, AccGood, AccBetter}

\* the (ended_at, created_at) pairs the writer stamps; effective times 5, 10, 30
Stamp(e, c) == [ended_at |-> e, created_at |-> c]

AllStamps == {Stamp(NULL, 5), Stamp(Some(10), 5), Stamp(NULL, 30)}

----------------------------------------------------------------------------
(* The stored entity graphs the exploration starts from.  Every graph is a *)
(* state the store can hold: ids are unique, every reference resolves.     *)

Agent(i, n) == [id |-> i, name |-> n]

Model(i, n, a, base, dup) ==
  [id |-> i, name |-> n, agent_id |-> a, base_model_id |-> base,
   duplicate_of |-> dup, creation_time |-> IF base = NULL THEN Some(3) ELSE NULL]

Benchmark(i, n, dup) == [id |-> i, name |-> n, duplicate_of |-> dup]

\* one foundation model on one benchmark, every kind of accuracy and timestamp
Selection ==
  [agents     |-> {Agent("a1", "agentA")},
   models     |-> {Model("m1", "base", "a1", NULL, NULL)},
   benchmarks |-> {Benchmark("b1", "dev", NULL)},
   metrics    |-> AllMetrics,
   stamps     |-> AllStamps,
   tz         |-> 0]

\* a fine-tuned model and its base model, on a canonical benchmark and a duplicate
BaseModel ==
  [agents     |-> {Agent("a1", "agentA")},
   models     |-> {Model("m1", "base", "a1", NULL, NULL),
                   Model("m2", "tuned", "a1", Some("m1"), NULL)},
   benchmarks |-> {Benchmark("b1", "dev", NULL), Benchmark("b2", "dev_v2", Some("b1"))},
   metrics    |-> {AccZero, AccGood},
   stamps     |-> {Stamp(NULL, 5), Stamp(Some(10), 5)},
   tz         |-> 0]

\* two models that share a name, two unrelated benchmarks that share a name
SharedNames ==
  [agents     |-> {Agent("a1", "agentA")},
   models     |-> {Model("m1", "same", "a1", NULL, NULL),
                   Model("m2", "same", "a1", NULL, NULL)},
   benchmarks |-> {Benchmark("b1", "dev", NULL), Benchmark("b3", "dev", NULL)},
   metrics    |-> {AccZero, AccGood},
   stamps     |-> {Stamp(NULL, 5), Stamp(Some(10), 5)},
   tz         |-> 0]

\* a model fine-tuned from a duplicate of another model; jobs without accuracy
DuplicateBase ==
  [agents     |-> {Agent("a1", "agentA")},
   models     |-> {Model("m1", "base", "a1", NULL, NULL),
                   Model("m2", "base_copy", "a1", NULL, Some("m1")),
                   Model("m3", "tuned", "a1", Some("m2"), NULL)},
   benchmarks |-> {Benchmark("b1", "dev", NULL)},
   metrics    |-> {StderrOnly, AccZero, AccGood},
   stamps     |-> {Stamp(NULL, 5), Stamp(Some(10), 5)},
   tz         |-> 0]

\* two agents that evaluate the same models
TwoAgents ==
  [agents     |-> {Agent("a1", "agentA"), Agent("a2", "agentB")},
   models     |-> {Model("m1", "base", "a1", NULL, NULL),
                   Model("m2", "tuned", "a1", Some("m1"), NULL)},
   benchmarks |-> {Benchmark("b1", "dev", NULL)},
   metrics    |-> {AccZero, AccGood},
   stamps     |-> {Stamp(Some(10), 5)},
   tz         |-> 0]

\* names that contain the "|||" the routes put between model name and agent name
Delimiter ==
  [agents     |-> {Agent("a1", "cli"), Agent("a2", "v2|||cli")},
   models     |-> {Model("m1", "gpt|||v2", "a1", NULL, NULL),
                   Model("m2", "gpt", "a2", NULL, NULL)},
   benchmarks |-> {Benchmark("b1", "dev", NULL)},
   metrics    |-> {AccGood},
   stamps     |-> {Stamp(Some(10), 5)},
   tz         |-> 0]

\* a server whose clock is two hours ahead of UTC, jobs late in the UTC day
TimeZone ==
  [agents     |-> {Agent("a1", "agentA")},
   models     |-> {Model("m1", "base", "a1", NULL, NULL)},
   benchmarks |-> {Benchmark("b1", "dev", NULL), Benchmark("b4", "dev_v2", NULL)},
   metrics    |-> {AccGood},
   stamps     |-> {Stamp(NULL, 21), Stamp(NULL, 22)},
   tz         |-> 2]

\* two agents that evaluate a model fine-tuned from a duplicate of another model
TwoAgentsDuplicate ==
  [agents     |-> {Agent("a1", "agentA"), Agent("a2", "agentB")},
   models     |-> {Model("m1", "base", "a1", NULL, NULL),
                   Model("m2", "base_copy", "a1", NULL, Some("m1")),
                   Model("m3", "tuned", "a1", Some("m2"), NULL)},
   benchmarks |-> {Benchmark("b1", "dev", NULL)},
   metrics    |-> {AccZero, AccGood},
   stamps     |-> {Stamp(Some(10), 5)},
   tz         |-> 0]

\* a duplicate of a duplicate: dev_v3 -> dev_v2 -> dev
Chain ==
  [agents     |-> {Agent("a1", "agentA")},
   models     |-> {Model("m1", "base", "a1", NULL, NULL)},
   benchmarks |-> {Benchmark("b1", "dev", NULL), Benchmark("b2", "dev_v2", Some("b1")),
                   Benchmark("b3", "dev_v3", Some("b2"))},
   metrics    |-> {AccZero, AccGood},
   stamps     |-> {Stamp(NULL, 5), Stamp(Some(10), 5)},
   tz         |-> 0]

\* two models of one agent that share a name, one of them fine-tuned; two benchmarks
NameClash ==
  [agents     |-> {Agent("a1", "agentA")},
   models     |-> {Model("m1", "same", "a1", NULL, NULL),
                   Model("m2", "same", "a1", Some("m3"), NULL),
                   Model("m3", "base", "a1", NULL, NULL)},
   benchmarks |-> {Benchmark("b1", "dev", NULL), Benchmark("b4", "dev_v2", NULL)},
   metrics    |-> {AccGood},
   stamps     |-> {Stamp(Some(10), 5)},
   tz         |-> 0]

\* a store the external writer is still filling: one model, no job yet
Ingestion ==
  [agents     |-> {Agent("a1", "agentA")},
   models     |-> {Model("m1", "base", "a1", NULL, NULL)},
   benchmarks |-> {Benchmark("b1", "dev", NULL)},
   metrics    |-> {AccGood},
   stamps     |-> {Stamp(Some(10), 5)},
   tz         |-> 0]

\* three models to rank, one of them fine-tuned (no creation time), on a benchmark
\* that is not the page's default one; jobs with and without an end time
Board ==
  [agents     |-> {Agent("a1", "agentA")},
   models     |-> {Model("m1", "base", "a1", NULL, NULL),
                   Model("m2", "tuned", "a1", Some("m1"), NULL),
                   Model("m3", "gpt", "a1", NULL, NULL)},
   benchmarks |-> {Benchmark("b1", "dev", NULL)},
   metrics    |-> {AccZero, AccGood},
   stamps     |-> {Stamp(Some(10), 5), Stamp(NULL, 30)},
   tz         |-> 0]

\* one model on the default benchmarks and on one more
Defaults ==
  [agents     |-> {Agent("a1", "agentA")},
   models     |-> {Model("m1", "base", "a1", NULL, NULL)},
   benchmarks |-> {Benchmark("b1", "dev_set_71_tasks", NULL),
                   Benchmark("b2", "dev_set_v2", NULL),
                   Benchmark("b3", "dev", NULL)},
   metrics    |-> {AccGood},
   stamps     |-> {Stamp(Some(10), 5)},
   tz         |-> 0]

\* the graphs the server's routes are explored on
SpecScenarios ==
  {"Selection", "BaseModel", "SharedNames", "DuplicateBase", "TwoAgents", "Delimiter", "TimeZone"}

\* the graphs explored for one part of the program only
OtherScenarios == {"TwoAgentsDuplicate", "Chain", "NameClash", "Ingestion", "Board", "Defaults"}

Scenarios ==
  [name \in SpecScenarios \cup OtherScenarios |->
     CASE name = "Selection"     -> Selection
       [] name = "BaseModel"     -> BaseModel
       [] name = "SharedNames"   -> SharedNames
       [] name = "DuplicateBase" -> DuplicateBase
       [] name = "TwoAgents"     -> TwoAgents
       [] name = "Delimiter"     -> Delimiter
       [] name = "TimeZone"      -> TimeZone
       [] name = "TwoAgentsDuplicate" -> TwoAgentsDuplicate
       [] name = "Chain"         -> Chain
       [] name = "NameClash"     -> NameClash
       [] name = "Ingestion"     -> Ingestion
       [] name = "Board"         -> Board
       [] name = "Defaults"      -> Defaults]

----------------------------------------------------------------------------
(* leaderboard_results: the job_metrics CTE *)

\* jsonb_array_elements(metrics) elem WHERE elem->>'name' = n  LIMIT 1, value * 100
PercentScale == 100

MetricPercent(metrics, n) ==
  LET hits == {i \in 1..Len(metrics) : metrics[i].name = n}
  IN  IF hits = {} THEN NULL
      ELSE Some(metrics[CHOOSE i \in hits : \A k \in hits : i <= k].value * PercentScale)

job_timestamp(sj) == Get(COALESCE(sj.ended_at, Some(sj.created_at)))

computed_accuracy(sj) == MetricPercent(Get(sj.metrics), "accuracy")

computed_accuracy_stderr(sj) == MetricPercent(Get(sj.metrics), "accuracy_stderr")

\* WHERE sj.metrics IS NOT NULL
job_metrics == {sj \in sandbox_jobs : sj.metrics # NULL}

----------------------------------------------------------------------------
(* leaderboard_results: FROM job_metrics jm ... and the joins *)

\* FROM job_metrics jm INNER JOIN agents a INNER JOIN models m INNER JOIN benchmarks b
FromClause ==
  UNION {{[jm |-> jm, a |-> a, m |-> m, b |-> b] :
             a \in {x \in agents : x.id = jm.agent_id},
             m \in {x \in models : x.id = jm.model_id},
             b \in {x \in benchmarks : x.id = jm.benchmark_id}} : jm \in job_metrics}

\* LEFT JOIN t ON ref = t.id : the matching row, as a set of at most one row
LeftJoin(table, ref) == {x \in table : ref = Some(x.id)}

\* a column of a left-joined row: NULL when the join found nothing
NameOf(rows) == {x.name : x \in rows}

DuplicateOf(rows) == UNION {x.duplicate_of : x \in rows}

bm(r) == LeftJoin(models, r.m.base_model_id)

m_canonical(r) == LeftJoin(models, r.m.duplicate_of)

bm_canonical(r) == LeftJoin(models, DuplicateOf(bm(r)))

b_canonical(r) == LeftJoin(benchmarks, r.b.duplicate_of)

\* COALESCE(b_canonical.name, b.name)
canonical_benchmark_name(r) == Get(COALESCE(NameOf(b_canonical(r)), Some(r.b.name)))

\* COALESCE(duplicate_of, id) of a benchmark row
CanonicalBenchmarkId(b) == Get(COALESCE(b.duplicate_of, Some(b.id)))

----------------------------------------------------------------------------
(* leaderboard_results: DISTINCT ON ... ORDER BY *)

\* ACCURACY_THRESHOLD: the "> 1.0" of the view, in thousandths of a percent
ACCURACY_THRESHOLD == 1000

\* slip: ">= 1.0", a job at exactly 1.0% counted as meeting the threshold
ThresholdBucketInclusive(accuracy) ==
  IF accuracy # NULL /\ Get(accuracy) >= ACCURACY_THRESHOLD THEN 0 ELSE 1

\* CASE WHEN accuracy > 1.0 THEN 0 ELSE 1 END  (NULL > 1.0 is not true)
ThresholdBucket(accuracy) ==
  IF accuracy # NULL /\ Get(accuracy) > ACCURACY_THRESHOLD THEN 0 ELSE 1

\* slip: the key of the view before duplicates were merged, DISTINCT ON (a.name, m.name, b.name)
DistinctOnBenchmarkName(r) == <<r.a.name, r.m.name, r.b.name>>

\* slip: grouping by the ids instead of the names
DistinctOnIds(r) == <<r.a.id, r.m.id, CanonicalBenchmarkId(r.b)>>

\* DISTINCT ON (a.name, m.name, COALESCE(b_canonical.name, b.name))
DistinctOn(r) == <<r.a.name, r.m.name, canonical_benchmark_name(r)>>

\* slip: the order of the view before the threshold, earliest job first
OrderByTimestampOnly(r1, r2) == job_timestamp(r1.jm) < job_timestamp(r2.jm)

\* slip: job_timestamp DESC, the latest job of a bucket first
OrderByLatestFirst(r1, r2) ==
  LET k1 == ThresholdBucket(computed_accuracy(r1.jm))
      k2 == ThresholdBucket(computed_accuracy(r2.jm))
  IN  \/ k1 < k2
      \/ k1 = k2 /\ job_timestamp(r1.jm) > job_timestamp(r2.jm)

\* ORDER BY ..., CASE WHEN jm.computed_accuracy > 1.0 THEN 0 ELSE 1 END, jm.job_timestamp ASC
\* within one DISTINCT ON group: r1 sorts strictly before r2
OrderBy(r1, r2) ==
  LET k1 == ThresholdBucket(computed_accuracy(r1.jm))
      k2 == ThresholdBucket(computed_accuracy(r2.jm))
  IN  \/ k1 < k2
      \/ k1 = k2 /\ job_timestamp(r1.jm) < job_timestamp(r2.jm)

Groups == {DistinctOn(r) : r \in FromClause}

\* the rows DISTINCT ON may keep for a group: any row no other row sorts before
\* (the order among rows that tie on the ORDER BY keys is not defined)
FirstRows(key) ==
  LET group == {r \in FromClause : DistinctOn(r) = key}
  IN  {r \in group : \A r2 \in group : ~OrderBy(r2, r)}

----------------------------------------------------------------------------
(* leaderboard_results: the four base model accuracy subqueries *)

\* slip: the subquery without bsj.agent_id = jm.agent_id, base jobs of every agent
BaseJobRowsAnyAgent(r, model) ==
  UNION {{[bsj |-> bsj, bb |-> bb, value |-> Get(bsj.metrics)[i].value * PercentScale] :
             bb \in {x \in benchmarks : x.id = bsj.benchmark_id},
             i \in {k \in 1..Len(Get(bsj.metrics)) : Get(bsj.metrics)[k].name = "accuracy"}} :
          bsj \in {j \in sandbox_jobs : /\ j.metrics # NULL
                                        /\ Some(j.model_id) = model}}

\* slip: COALESCE(<model>, m.id), a foundation model compared with itself
BaseJobRowsOfSelf(r, model) ==
  UNION {{[bsj |-> bsj, bb |-> bb, value |-> Get(bsj.metrics)[i].value * PercentScale] :
             bb \in {x \in benchmarks : x.id = bsj.benchmark_id},
             i \in {k \in 1..Len(Get(bsj.metrics)) : Get(bsj.metrics)[k].name = "accuracy"}} :
          bsj \in {j \in sandbox_jobs : /\ j.metrics # NULL
                                        /\ j.agent_id = r.jm.agent_id
                                        /\ Some(j.model_id) = COALESCE(model, Some(r.m.id))}}

\* FROM sandbox_jobs bsj INNER JOIN benchmarks bb INNER JOIN jsonb_array_elements(bsj.metrics) elem
\* WHERE bsj.agent_id = jm.agent_id AND bsj.model_id = <model> AND elem->>'name' = 'accuracy'
\*   AND bsj.metrics IS NOT NULL          (<model> NULL: the comparison is never true)
BaseJobRows(r, model) ==
  UNION {{[bsj |-> bsj, bb |-> bb, value |-> Get(bsj.metrics)[i].value * PercentScale] :
             bb \in {x \in benchmarks : x.id = bsj.benchmark_id},
             i \in {k \in 1..Len(Get(bsj.metrics)) : Get(bsj.metrics)[k].name = "accuracy"}} :
          bsj \in {j \in sandbox_jobs : /\ j.metrics # NULL
                                        /\ j.agent_id = r.jm.agent_id
                                        /\ Some(j.model_id) = model}}

\* ORDER BY CASE WHEN value > 1.0 THEN 0 ELSE 1 END, COALESCE(ended_at, created_at) ASC  LIMIT 1
\* the values the scalar subquery may return: NULL when there is no row
LimitOne(rows) ==
  LET Before(x, y) ==
        LET kx == ThresholdBucket(Some(x.value))
            ky == ThresholdBucket(Some(y.value))
        IN  \/ kx < ky
            \/ kx = ky /\ job_timestamp(x.bsj) < job_timestamp(y.bsj)
  IN  IF rows = {} THEN {NULL}
      ELSE {Some(x.value) : x \in {y \in rows : \A z \in rows : ~Before(z, y)}}

\* slip: the subquery of the view before duplicates were merged, bsj.benchmark_id = sj.benchmark_id
base_model_accuracy_exact(r) ==
  LimitOne({x \in BaseJobRows(r, r.m.base_model_id) : x.bb.id = r.b.id})

base_model_accuracy(r) ==
  LimitOne({x \in BaseJobRows(r, r.m.base_model_id) :
              CanonicalBenchmarkId(x.bb) = CanonicalBenchmarkId(r.b)})

canonical_benchmark_base_model_accuracy(r) ==
  LimitOne({x \in BaseJobRows(r, r.m.base_model_id) :
              CanonicalBenchmarkId(x.bb) = CanonicalBenchmarkId(r.b)})

\* slip: bsj.model_id = m.base_model_id, the duplicate itself instead of its canonical model
canonical_base_model_accuracy_of_base(r) ==
  LimitOne({x \in BaseJobRows(r, r.m.base_model_id) :
              CanonicalBenchmarkId(x.bb) = CanonicalBenchmarkId(r.b)})

\* bsj.model_id = COALESCE(bm.duplicate_of, m.base_model_id)
canonical_base_model_accuracy(r) ==
  LimitOne({x \in BaseJobRows(r, COALESCE(DuplicateOf(bm(r)), r.m.base_model_id)) :
              CanonicalBenchmarkId(x.bb) = CanonicalBenchmarkId(r.b)})

canonical_both_base_model_accuracy(r) ==
  LimitOne({x \in BaseJobRows(r, COALESCE(DuplicateOf(bm(r)), r.m.base_model_id)) :
              CanonicalBenchmarkId(x.bb) = CanonicalBenchmarkId(r.b)})

----------------------------------------------------------------------------
(* leaderboard_results: the select list *)

\* slip: the canonical benchmark reported as the source of the result
SelectListCanonicalSource(r, bma, cbbma, cbma, cbothbma) ==
  [model_id                 |-> r.m.id,
   model_name               |-> r.m.name,
   model_duplicate_of       |-> r.m.duplicate_of,
   canonical_model_name     |-> Get(COALESCE(NameOf(m_canonical(r)), Some(r.m.name))),
   base_model_id            |-> r.m.base_model_id,
   base_model_name          |-> Get(COALESCE(NameOf(bm(r)), Some("None"))),
   base_model_duplicate_of  |-> DuplicateOf(bm(r)),
   canonical_base_model_name |->
       Get(COALESCE(NameOf(bm_canonical(r)), COALESCE(NameOf(bm(r)), Some("None")))),
   agent_name               |-> r.a.name,
   agent_id                 |-> r.a.id,
   benchmark_name           |-> canonical_benchmark_name(r),
   benchmark_id             |-> CanonicalBenchmarkId(r.b),
   benchmark_duplicate_of   |-> NULL,
   canonical_benchmark_name |-> canonical_benchmark_name(r),
   source_benchmark_name    |-> canonical_benchmark_name(r),
   source_benchmark_id      |-> CanonicalBenchmarkId(r.b),
   accuracy                 |-> computed_accuracy(r.jm),
   standard_error           |-> computed_accuracy_stderr(r.jm),
   ended_at                 |-> Some(job_timestamp(r.jm)),
   base_model_accuracy      |-> bma,
   canonical_benchmark_base_model_accuracy |-> cbbma,
   canonical_base_model_accuracy           |-> cbma,
   canonical_both_base_model_accuracy      |-> cbothbma]

\* the columns of one result row, given the values the four subqueries returned
\* (id is a fresh random uuid and hf_traces_link a pass-through: both left out)
SelectList(r, bma, cbbma, cbma, cbothbma) ==
  [model_id                 |-> r.m.id,
   model_name               |-> r.m.name,
   model_duplicate_of       |-> r.m.duplicate_of,
   canonical_model_name     |-> Get(COALESCE(NameOf(m_canonical(r)), Some(r.m.name))),
   base_model_id            |-> r.m.base_model_id,
   base_model_name          |-> Get(COALESCE(NameOf(bm(r)), Some("None"))),
   base_model_duplicate_of  |-> DuplicateOf(bm(r)),
   canonical_base_model_name |->
       Get(COALESCE(NameOf(bm_canonical(r)), COALESCE(NameOf(bm(r)), Some("None")))),
   agent_name               |-> r.a.name,
   agent_id                 |-> r.a.id,
   benchmark_name           |-> canonical_benchmark_name(r),
   benchmark_id             |-> CanonicalBenchmarkId(r.b),
   benchmark_duplicate_of   |-> NULL,
   canonical_benchmark_name |-> canonical_benchmark_name(r),
   source_benchmark_name    |-> r.b.name,
   source_benchmark_id      |-> r.b.id,
   accuracy                 |-> computed_accuracy(r.jm),
   standard_error           |-> computed_accuracy_stderr(r.jm),
   ended_at                 |-> Some(job_timestamp(r.jm)),
   base_model_accuracy      |-> bma,
   canonical_benchmark_base_model_accuracy |-> cbbma,
   canonical_base_model_accuracy           |-> cbma,
   canonical_both_base_model_accuracy      |-> cbothbma]

\* the result rows the view may produce for one DISTINCT ON group
GroupRows(key) ==
  UNION {{SelectList(r, bma, cbbma, cbma, cbothbma) :
             bma \in base_model_accuracy(r),
             cbbma \in canonical_benchmark_base_model_accuracy(r),
             cbma \in canonical_base_model_accuracy(r),
             cbothbma \in canonical_both_base_model_accuracy(r)} : r \in FirstRows(key)}

\* the collation order of the names the scenarios use (String.localeCompare)
NameOrder ==
  <<"agentA", "agentB", "base", "base_copy", "cli", "dev", "dev_set_71_tasks", "dev_set_v2",
    "dev_v2", "dev_v3", "gpt", "gpt|||v2",
    "None", "same", "tuned", "v2|||cli">>

NameRank(n) == CHOOSE i \in 1..Len(NameOrder) : NameOrder[i] = n

localeCompare(x, y) ==
  IF NameRank(x) < NameRank(y) THEN -1 ELSE IF NameRank(x) > NameRank(y) THEN 1 ELSE 0

\* ORDER BY a.name, m.name, COALESCE(b_canonical.name, b.name): the order of the rows kept
RowOrder(x, y) ==
  LET c1 == localeCompare(x.agent_name, y.agent_name)
      c2 == localeCompare(x.model_name, y.model_name)
      c3 == localeCompare(x.benchmark_name, y.benchmark_name)
  IN  c1 < 0 \/ (c1 = 0 /\ (c2 < 0 \/ (c2 = 0 /\ c3 < 0)))

\* the kept rows as a sequence, in the view's order
RECURSIVE SortRows(_)
SortRows(S) ==
  IF S = {} THEN << >>
  ELSE LET x == CHOOSE x \in S : \A y \in S : ~RowOrder(y, x)
       IN  <<x>> \o SortRows(S \ {x})

\* SELECT * FROM leaderboard_results: every result the view may return, one row per
\* DISTINCT ON group (the first row of the group), in the view's order
leaderboard_results ==
  LET all == UNION {GroupRows(key) : key \in Groups}
  IN  {SortRows({f[key] : key \in Groups}) :
         f \in {g \in [Groups -> all] : \A key \in Groups : g[key] \in GroupRows(key)}}

----------------------------------------------------------------------------
(* server/storage.ts *)

\* new Date(t).toISOString().split('T')[0] + ' ' + new Date(t).toTimeString().split(' ')[0]
\* : the UTC calendar day, then the time of day on the server's clock
FormatTimestamp(t) == <<(t - (t % 24)) \div 24, (t + serverTz) % 24>>

\* the < of two formatted strings
StringLess(x, y) == x[1] < y[1] \/ (x[1] = y[1] /\ x[2] < y[2])

\* row.ended_at ? format(row.ended_at) : undefined
FormatOptional(t) == IF t # NULL THEN Some(FormatTimestamp(Get(t))) ELSE NULL

MapSeq(F(_), seq) == [i \in 1..Len(seq) |-> F(seq[i])]

BenchmarkResultExtended(row) ==
  [modelName     |-> row.model_name,
   agentName     |-> row.agent_name,
   benchmarkName |-> row.benchmark_name,
   accuracy      |-> Nullish(row.accuracy, 0),
   standardError |-> Nullish(row.standard_error, 0),
   endedAt       |-> FormatOptional(row.ended_at)]

getAllBenchmarkResults(rows) == MapSeq(BenchmarkResultExtended, rows)

\* slip: row.base_model_accuracy ?? 0, like accuracy and standardError
BenchmarkResultWithZeroBase(row) ==
  [modelName     |-> row.model_name,
   agentName     |-> row.agent_name,
   benchmarkName |-> row.benchmark_name,
   accuracy      |-> Nullish(row.accuracy, 0),
   standardError |-> Nullish(row.standard_error, 0),
   endedAt       |-> FormatOptional(row.ended_at),
   modelId       |-> row.model_id,
   baseModelId   |-> row.base_model_id,
   baseModelName |-> row.base_model_name,
   baseModelAccuracy                   |-> Some(Nullish(row.base_model_accuracy, 0)),
   canonicalBenchmarkBaseModelAccuracy |-> row.canonical_benchmark_base_model_accuracy,
   canonicalBaseModelAccuracy          |-> row.canonical_base_model_accuracy,
   canonicalBothBaseModelAccuracy      |-> row.canonical_both_base_model_accuracy,
   agentId       |-> row.agent_id,
   benchmarkId   |-> row.benchmark_id,
   modelDuplicateOf       |-> row.model_duplicate_of,
   canonicalModelName     |-> row.canonical_model_name,
   baseModelDuplicateOf   |-> row.base_model_duplicate_of,
   canonicalBaseModelName |-> row.canonical_base_model_name,
   benchmarkDuplicateOf   |-> row.benchmark_duplicate_of,
   canonicalBenchmarkName |-> row.canonical_benchmark_name,
   sourceBenchmarkName    |-> row.source_benchmark_name,
   sourceBenchmarkId      |-> row.source_benchmark_id]

\* slip: the two middle columns of the matrix mapped to each other's field
BenchmarkResultVariantsSwapped(row) ==
  [modelName     |-> row.model_name,
   agentName     |-> row.agent_name,
   benchmarkName |-> row.benchmark_name,
   accuracy      |-> Nullish(row.accuracy, 0),
   standardError |-> Nullish(row.standard_error, 0),
   endedAt       |-> FormatOptional(row.ended_at),
   modelId       |-> row.model_id,
   baseModelId   |-> row.base_model_id,
   baseModelName |-> row.base_model_name,
   baseModelAccuracy                   |-> row.base_model_accuracy,
   canonicalBenchmarkBaseModelAccuracy |-> row.canonical_base_model_accuracy,
   canonicalBaseModelAccuracy          |-> row.canonical_benchmark_base_model_accuracy,
   canonicalBothBaseModelAccuracy      |-> row.canonical_both_base_model_accuracy,
   agentId       |-> row.agent_id,
   benchmarkId   |-> row.benchmark_id,
   modelDuplicateOf       |-> row.model_duplicate_of,
   canonicalModelName     |-> row.canonical_model_name,
   baseModelDuplicateOf   |-> row.base_model_duplicate_of,
   canonicalBaseModelName |-> row.canonical_base_model_name,
   benchmarkDuplicateOf   |-> row.benchmark_duplicate_of,
   canonicalBenchmarkName |-> row.canonical_benchmark_name,
   sourceBenchmarkName    |-> row.source_benchmark_name,
   sourceBenchmarkId      |-> row.source_benchmark_id]

BenchmarkResultWithImprovement(row) ==
  [modelName     |-> row.model_name,
   agentName     |-> row.agent_name,
   benchmarkName |-> row.benchmark_name,
   accuracy      |-> Nullish(row.accuracy, 0),
   standardError |-> Nullish(row.standard_error, 0),
   endedAt       |-> FormatOptional(row.ended_at),
   modelId       |-> row.model_id,
   baseModelId   |-> row.base_model_id,
   baseModelName |-> row.base_model_name,
   baseModelAccuracy                   |-> row.base_model_accuracy,
   canonicalBenchmarkBaseModelAccuracy |-> row.canonical_benchmark_base_model_accuracy,
   canonicalBaseModelAccuracy          |-> row.canonical_base_model_accuracy,
   canonicalBothBaseModelAccuracy      |-> row.canonical_both_base_model_accuracy,
   agentId       |-> row.agent_id,
   benchmarkId   |-> row.benchmark_id,
   modelDuplicateOf       |-> row.model_duplicate_of,
   canonicalModelName     |-> row.canonical_model_name,
   baseModelDuplicateOf   |-> row.base_model_duplicate_of,
   canonicalBaseModelName |-> row.canonical_base_model_name,
   benchmarkDuplicateOf   |-> row.benchmark_duplicate_of,
   canonicalBenchmarkName |-> row.canonical_benchmark_name,
   sourceBenchmarkName    |-> row.source_benchmark_name,
   sourceBenchmarkId      |-> row.source_benchmark_id]

getAllBenchmarkResultsWithImprovement(rows) == MapSeq(BenchmarkResultWithImprovement, rows)

\* one row of getAllModels(), for a models row whose agent exists
ModelInfo(row, modelsData, agentsData) ==
  LET baseModel == LeftJoin(modelsData, row.base_model_id)
      canonicalModel == LeftJoin(modelsData, row.duplicate_of)
      baseModelName == Get(COALESCE(NameOf(baseModel), Some("None")))
      baseModelDuplicateOf == DuplicateOf(baseModel)
      canonicalBaseModel == LeftJoin(modelsData, baseModelDuplicateOf)
  IN  [modelId       |-> row.id,
       modelName     |-> row.name,
       agentId       |-> row.agent_id,
       agentName     |-> (CHOOSE a \in agentsData : a.id = row.agent_id).name,
       baseModelId   |-> row.base_model_id,
       baseModelName |-> baseModelName,
       modelDuplicateOf       |-> row.duplicate_of,
       canonicalModelName     |-> Get(COALESCE(NameOf(canonicalModel), Some(row.name))),
       baseModelDuplicateOf   |-> baseModelDuplicateOf,
       canonicalBaseModelName |-> Get(COALESCE(NameOf(canonicalBaseModel), Some(baseModelName))),
       creationTime  |-> row.creation_time]

\* getAllModels(): modelsData is the models table in the order the store returned it
getAllModels(modelsData, agentsData) ==
  LET table == {modelsData[i] : i \in 1..Len(modelsData)}
      kept == SelectSeq(modelsData, LAMBDA row : \E a \in agentsData : a.id = row.agent_id)
  IN  [i \in 1..Len(kept) |-> ModelInfo(kept[i], table, agentsData)]

----------------------------------------------------------------------------
(* server/routes.ts *)

\* `${modelName}|||${agentName}`
GroupKey(modelName, agentName) == modelName \o "|||" \o agentName

\* groupedData is a Map: here the sequence of its values, in insertion order
GroupAt(groupedData, key) ==
  {i \in 1..Len(groupedData) :
     GroupKey(groupedData[i].modelName, groupedData[i].agentName) = key}

\* if (!group.firstEvalEndedAt || (result.endedAt && result.endedAt < group.firstEvalEndedAt))
Earliest(first, endedAt) ==
  IF first = NULL \/ (endedAt # NULL /\ StringLess(Get(endedAt), Get(first)))
  THEN endedAt ELSE first

\* if (!group.latestEvalEndedAt || (result.endedAt && result.endedAt > group.latestEvalEndedAt))
Latest(latest, endedAt) ==
  IF latest = NULL \/ (endedAt # NULL /\ StringLess(Get(latest), Get(endedAt)))
  THEN endedAt ELSE latest

\* group.benchmarks[name] = cell
SetCell(cells, name, cell) ==
  [n \in DOMAIN cells \cup {name} |-> IF n = name THEN cell ELSE cells[n]]

NoCells == [n \in {} |-> NULL]

\* the sort of the response: modelName, then agentName
RowBefore(x, y) ==
  LET c1 == localeCompare(x.modelName, y.modelName)
  IN  c1 < 0 \/ (c1 = 0 /\ localeCompare(x.agentName, y.agentName) < 0)

\* Array.prototype.sort is stable: rows that compare equal keep their order
RECURSIVE SortPivot(_)
SortPivot(rows) ==
  IF rows = << >> THEN << >>
  ELSE LET i == CHOOSE i \in 1..Len(rows) :
                  /\ \A k \in 1..Len(rows) : ~RowBefore(rows[k], rows[i])
                  /\ \A k \in 1..(i - 1) : RowBefore(rows[i], rows[k])
           rest == [k \in 1..(Len(rows) - 1) |-> IF k < i THEN rows[k] ELSE rows[k + 1]]
       IN  <<rows[i]>> \o SortPivot(rest)

\* GET /api/leaderboard-pivoted: the loop over the results
RECURSIVE PivotLoop(_, _)
PivotLoop(results, groupedData) ==
  IF results = << >> THEN groupedData
  ELSE
    LET result == Head(results)
        key == GroupKey(result.modelName, result.agentName)
        created ==
          IF GroupAt(groupedData, key) = {}
          THEN Append(groupedData,
                 [modelName |-> result.modelName,
                  agentName |-> result.agentName,
                  firstEvalEndedAt  |-> result.endedAt,
                  latestEvalEndedAt |-> result.endedAt,
                  benchmarks |-> NoCells])
          ELSE groupedData
        g == CHOOSE i \in GroupAt(created, key) : TRUE
        group == created[g]
        updated ==
          [group EXCEPT
             !.firstEvalEndedAt  = Earliest(group.firstEvalEndedAt, result.endedAt),
             !.latestEvalEndedAt = Latest(group.latestEvalEndedAt, result.endedAt),
             !.benchmarks = SetCell(group.benchmarks, result.benchmarkName,
                              [accuracy |-> result.accuracy,
                               standardError |-> result.standardError])]
    IN  PivotLoop(Tail(results), [created EXCEPT ![g] = updated])

LeaderboardPivoted(results) == SortPivot(PivotLoop(results, << >>))

\* slip: the improvement as a ratio to the base accuracy, in percent
ImprovementRatio(result) ==
  IF result.baseModelAccuracy # NULL /\ Get(result.baseModelAccuracy) # 0
  THEN Some(((result.accuracy - Get(result.baseModelAccuracy)) * 100)
              \div Get(result.baseModelAccuracy))
  ELSE NULL

\* const improvement = result.baseModelAccuracy !== undefined
\*   ? result.accuracy - result.baseModelAccuracy : undefined
Improvement(result) ==
  IF result.baseModelAccuracy # NULL
  THEN Some(result.accuracy - Get(result.baseModelAccuracy))
  ELSE NULL

\* GET /api/leaderboard-pivoted-with-improvement: the loop over the results
RECURSIVE ImprovementLoop(_, _)
ImprovementLoop(results, groupedData) ==
  IF results = << >> THEN groupedData
  ELSE
    LET result == Head(results)
        key == GroupKey(result.modelName, result.agentName)
        created ==
          IF GroupAt(groupedData, key) = {}
          THEN Append(groupedData,
                 [modelName |-> result.modelName,
                  agentName |-> result.agentName,
                  modelId   |-> result.modelId,
                  baseModelName |-> result.baseModelName,
                  firstEvalEndedAt  |-> result.endedAt,
                  latestEvalEndedAt |-> result.endedAt,
                  modelCreatedAt    |-> NULL,
                  modelDuplicateOf  |-> result.modelDuplicateOf,
                  canonicalModelName     |-> result.canonicalModelName,
                  canonicalBaseModelName |-> result.canonicalBaseModelName,
                  benchmarks |-> NoCells])
          ELSE groupedData
        g == CHOOSE i \in GroupAt(created, key) : TRUE
        group == created[g]
        improvement == Improvement(result)
        updated ==
          [group EXCEPT
             !.firstEvalEndedAt  = Earliest(group.firstEvalEndedAt, result.endedAt),
             !.latestEvalEndedAt = Latest(group.latestEvalEndedAt, result.endedAt),
             !.benchmarks = SetCell(group.benchmarks, result.benchmarkName,
                [accuracy          |-> result.accuracy,
                 standardError     |-> result.standardError,
                 baseModelAccuracy |-> result.baseModelAccuracy,
                 improvement       |-> improvement,
                 canonicalBenchmarkBaseModelAccuracy |-> result.canonicalBenchmarkBaseModelAccuracy,
                 canonicalBaseModelAccuracy          |-> result.canonicalBaseModelAccuracy,
                 canonicalBothBaseModelAccuracy      |-> result.canonicalBothBaseModelAccuracy,
                 benchmarkDuplicateOf   |-> result.benchmarkDuplicateOf,
                 canonicalBenchmarkName |-> result.canonicalBenchmarkName,
                 sourceBenchmarkName    |-> result.sourceBenchmarkName,
                 sourceBenchmarkId      |-> result.sourceBenchmarkId])]
    IN  ImprovementLoop(Tail(results), [created EXCEPT ![g] = updated])

\* modelCreationTimeMap.get(group.modelId): the last model of that id with a creation time
CreationTimeOf(allModels, modelId) ==
  LET hits == {i \in 1..Len(allModels) :
                 allModels[i].modelId = modelId /\ allModels[i].creationTime # NULL}
  IN  IF hits = {} THEN NULL
      ELSE allModels[CHOOSE i \in hits : \A k \in hits : k <= i].creationTime

\* groupedData.forEach: add modelCreatedAt to the existing entries
AddModelCreatedAt(groupedData, allModels) ==
  [i \in 1..Len(groupedData) |->
     [groupedData[i] EXCEPT
        !.modelCreatedAt = FormatOptional(CreationTimeOf(allModels, groupedData[i].modelId))]]

\* for (const model of allModels): add the models without evaluations
RECURSIVE AddModelsWithoutEvaluations(_, _)
AddModelsWithoutEvaluations(allModels, groupedData) ==
  IF allModels = << >> THEN groupedData
  ELSE
    LET model == Head(allModels)
        key == GroupKey(model.modelName, model.agentName)
        added ==
          IF GroupAt(groupedData, key) = {}
          THEN Append(groupedData,
                 [modelName |-> model.modelName,
                  agentName |-> model.agentName,
                  modelId   |-> model.modelId,
                  baseModelName |-> model.baseModelName,
                  firstEvalEndedAt  |-> NULL,
                  latestEvalEndedAt |-> NULL,
                  modelCreatedAt    |-> FormatOptional(model.creationTime),
                  modelDuplicateOf  |-> model.modelDuplicateOf,
                  canonicalModelName     |-> model.canonicalModelName,
                  canonicalBaseModelName |-> model.canonicalBaseModelName,
                  benchmarks |-> NoCells])
          ELSE groupedData
    IN  AddModelsWithoutEvaluations(Tail(allModels), added)

LeaderboardPivotedWithImprovement(results, allModels) ==
  SortPivot(AddModelsWithoutEvaluations(allModels,
              AddModelCreatedAt(ImprovementLoop(results, << >>), allModels)))

----------------------------------------------------------------------------
(* server/storage.ts: how a call ends, and the legacy methods *)

\* the call threw `error`
Throw(error) == [threw |-> TRUE, error |-> error]

\* the call returned `value`
Return(value) == [threw |-> FALSE, value |-> value]

getBenchmarkResult(id) ==
  Throw("getBenchmarkResult is not implemented for Supabase view-based leaderboard")

\* slip: the legacy insert still answers with the row it was given
createBenchmarkResultInserts(result) == Return(Some(result))

createBenchmarkResult(result) ==
  Throw("createBenchmarkResult is not implemented for Supabase view-based leaderboard")

deleteBenchmarkResult(id) ==
  Throw("deleteBenchmarkResult is not implemented for Supabase view-based leaderboard")

\* const { data, error } = await supabase.from(...).select(...); if (error) throw error
\* : `failed` is the read of the request that came back with an error
StoreRead(read, failed, value) == IF failed = read THEN Throw(read) ELSE Return(value)

\* the reads of getAllModels(): models first, agents only after models came back
ModelsRead(failed, modelsData, agentsData) ==
  IF failed = "models" THEN Throw("models")
  ELSE IF failed = "agents" THEN Throw("agents")
  ELSE Return(getAllModels(modelsData, agentsData))

----------------------------------------------------------------------------
(* server/routes.ts: what each handler answers *)

\* an answer: the HTTP status and the JSON body (an error body carries no rows)
Answer(code, body) == [status |-> code, body |-> body]

\* GET /api/benchmark-results
BenchmarkResultsAnswer(results) ==
  IF results.threw THEN Answer(500, << >>) ELSE Answer(200, results.value)

\* GET /api/benchmark-results/:id
BenchmarkResultAnswer(id) ==
  LET result == getBenchmarkResult(id)
  IN  IF result.threw THEN Answer(500, << >>)
      ELSE IF result.value = NULL THEN Answer(404, << >>)
      ELSE Answer(200, <<Get(result.value)>>)

\* POST /api/benchmark-results: the body is parsed before the storage is called
CreateBenchmarkResultAnswer(body) ==
  IF body # "valid" THEN Answer(400, << >>)
  ELSE LET result == createBenchmarkResult(body)
       IN  IF result.threw THEN Answer(500, << >>) ELSE Answer(201, <<Get(result.value)>>)

\* DELETE /api/benchmark-results/:id
DeleteBenchmarkResultAnswer(id) ==
  IF deleteBenchmarkResult(id).threw THEN Answer(500, << >>) ELSE Answer(204, << >>)

\* GET /api/leaderboard-pivoted
LeaderboardPivotedAnswer(results) ==
  IF results.threw THEN Answer(500, << >>)
  ELSE Answer(200, LeaderboardPivoted(results.value))

\* slip: getAllModels() in a try of its own, the rows built so far sent when it throws
LeaderboardPivotedWithImprovementDegraded(results, allModels) ==
  IF results.threw THEN Answer(500, << >>)
  ELSE IF allModels.threw THEN Answer(200, SortPivot(ImprovementLoop(results.value, << >>)))
  ELSE Answer(200, LeaderboardPivotedWithImprovement(results.value, allModels.value))

\* GET /api/leaderboard-pivoted-with-improvement: one try around the whole handler
LeaderboardPivotedWithImprovementAnswer(results, allModels) ==
  IF results.threw \/ allModels.threw THEN Answer(500, << >>)
  ELSE Answer(200, LeaderboardPivotedWithImprovement(results.value, allModels.value))

----------------------------------------------------------------------------
(* client: the improvement the table shows for a cell *)

\* the base accuracy the two checkboxes select
ChosenBaseAccuracy(cell, showDupModels, showDupBenchmarks) ==
  IF showDupModels /\ showDupBenchmarks THEN cell.baseModelAccuracy
  ELSE IF showDupModels THEN cell.canonicalBenchmarkBaseModelAccuracy
  ELSE IF showDupBenchmarks THEN cell.canonicalBaseModelAccuracy
  ELSE cell.canonicalBothBaseModelAccuracy

recalculateImprovement(cell, showDupModels, showDupBenchmarks) ==
  LET chosen == ChosenBaseAccuracy(cell, showDupModels, showDupBenchmarks)
  IN  IF chosen # NULL THEN Some(cell.accuracy - Get(chosen)) ELSE NULL

\* the rows the table shows: every cell with its improvement recalculated
processedData(tableData, showDupModels, showDupBenchmarks) ==
  [i \in 1..Len(tableData) |->
     [tableData[i] EXCEPT
        !.benchmarks =
           [n \in DOMAIN tableData[i].benchmarks |->
              [tableData[i].benchmarks[n] EXCEPT
                 !.improvement = recalculateImprovement(tableData[i].benchmarks[n],
                                                        showDupModels, showDupBenchmarks)]]]]

----------------------------------------------------------------------------
(* The state machine *)

\* the orders in which SELECT ... FROM models may return the table
TableOrders(table) ==
  {seq \in [1..Cardinality(table) -> table] : {seq[i] : i \in 1..Len(seq)} = table}

\* the deployment holds one of the entity graphs `names`; nothing has been requested yet
Start(names) ==
  /\ scenario \in names
  /\ agents = Scenarios[scenario].agents
  /\ models = Scenarios[scenario].models
  /\ benchmarks = Scenarios[scenario].benchmarks
  /\ serverTz = Scenarios[scenario].tz
  /\ sandbox_jobs = {}
  /\ lastRequest = "none"
  /\ requestBody = "none"
  /\ storeError = "none"
  /\ status = 0
  /\ data = << >>
  /\ flatResponse = << >>
  /\ pivotedResponse = << >>
  /\ improvementResults = << >>
  /\ improvementResponse = << >>
  /\ showDuplicateModels = FALSE
  /\ showDuplicateBenchmarks = FALSE
  /\ pivotedData = << >>
  /\ activeTab = "filtered"
  /\ topN = 50
  /\ recentN = 50
  /\ topPerformerBenchmark = "dev_set_71_tasks"
  /\ selectedBenchmarks = << >>
  /\ hasInitializedBenchmarks = FALSE
  /\ fetchedModels = << >>
  /\ snapshotAnswers = {}

Init == Start(SpecScenarios)

\* the external ingestion package registers one more evaluation job
InsertJob ==
  /\ lastRequest = "none"
  /\ Cardinality(sandbox_jobs) < MaxJobs
  /\ \E a \in agents, m \in models, b \in benchmarks,
        metrics \in Scenarios[scenario].metrics, stamp \in Scenarios[scenario].stamps :
       sandbox_jobs' = sandbox_jobs \cup
         {[agent_id |-> a.id, model_id |-> m.id, benchmark_id |-> b.id,
           metrics |-> metrics, ended_at |-> stamp.ended_at, created_at |-> stamp.created_at]}
  /\ UNCHANGED <<scenario, agents, models, benchmarks, serverTz, request, page, inflight>>

\* GET /api/benchmark-results
GetBenchmarkResults ==
  /\ lastRequest = "none"
  /\ \E failed \in {"none", "leaderboard_results"} :
       \E rows \in (IF failed = "none" THEN leaderboard_results ELSE {<< >>}) :
         LET results == StoreRead("leaderboard_results", failed, getAllBenchmarkResults(rows))
             answer == BenchmarkResultsAnswer(results)
         IN  /\ storeError' = failed
             /\ data' = rows
             /\ flatResponse' = answer.body
             /\ status' = answer.status
  /\ lastRequest' = "benchmark-results"
  /\ UNCHANGED <<store, page, inflight, requestBody, pivotedResponse, improvementResults,
                 improvementResponse>>

\* GET /api/benchmark-results/:id
GetBenchmarkResult ==
  /\ lastRequest = "none"
  /\ \E id \in {"r1"} : status' = BenchmarkResultAnswer(id).status
  /\ lastRequest' = "benchmark-result"
  /\ UNCHANGED <<store, page, inflight, requestBody, storeError, data, flatResponse, pivotedResponse,
                 improvementResults, improvementResponse>>

\* POST /api/benchmark-results
PostBenchmarkResult ==
  /\ lastRequest = "none"
  /\ \E body \in {"valid", "invalid"} :
       /\ requestBody' = body
       /\ status' = CreateBenchmarkResultAnswer(body).status
  /\ lastRequest' = "create-benchmark-result"
  /\ UNCHANGED <<store, page, inflight, storeError, data, flatResponse, pivotedResponse,
                 improvementResults, improvementResponse>>

\* DELETE /api/benchmark-results/:id
DeleteBenchmarkResult ==
  /\ lastRequest = "none"
  /\ \E id \in {"r1"} : status' = DeleteBenchmarkResultAnswer(id).status
  /\ lastRequest' = "delete-benchmark-result"
  /\ UNCHANGED <<store, page, inflight, requestBody, storeError, data, flatResponse, pivotedResponse,
                 improvementResults, improvementResponse>>

\* GET /api/leaderboard-pivoted
GetLeaderboardPivoted ==
  /\ lastRequest = "none"
  /\ \E failed \in {"none", "leaderboard_results"} :
       \E rows \in (IF failed = "none" THEN leaderboard_results ELSE {<< >>}) :
         LET results == StoreRead("leaderboard_results", failed, getAllBenchmarkResults(rows))
             answer == LeaderboardPivotedAnswer(results)
         IN  /\ storeError' = failed
             /\ data' = rows
             /\ pivotedResponse' = answer.body
             /\ status' = answer.status
  /\ lastRequest' = "leaderboard-pivoted"
  /\ UNCHANGED <<store, page, inflight, requestBody, flatResponse, improvementResults,
                 improvementResponse>>

\* GET /api/leaderboard-pivoted-with-improvement
GetLeaderboardPivotedWithImprovement ==
  /\ lastRequest = "none"
  /\ \E failed \in {"none", "leaderboard_results", "models", "agents"} :
       \E rows \in (IF failed = "leaderboard_results" THEN {<< >>} ELSE leaderboard_results),
          modelsData \in (IF failed = "none" THEN TableOrders(models) ELSE {<< >>}) :
         LET results == StoreRead("leaderboard_results", failed,
                                  getAllBenchmarkResultsWithImprovement(rows))
             allModels == ModelsRead(failed, modelsData, agents)
             answer == LeaderboardPivotedWithImprovementAnswer(results, allModels)
         IN  /\ storeError' = failed
             /\ data' = rows
             /\ improvementResults' = IF results.threw THEN << >> ELSE results.value
             /\ improvementResponse' = answer.body
             /\ status' = answer.status
  /\ lastRequest' = "leaderboard-pivoted-with-improvement"
  /\ UNCHANGED <<store, page, inflight, requestBody, flatResponse, pivotedResponse>>

\* the response has been sent: nothing of the request is kept
Respond ==
  /\ lastRequest # "none"
  /\ lastRequest' = "none"
  /\ requestBody' = "none"
  /\ storeError' = "none"
  /\ status' = 0
  /\ data' = << >>
  /\ flatResponse' = << >>
  /\ pivotedResponse' = << >>
  /\ improvementResults' = << >>
  /\ improvementResponse' = << >>
  /\ UNCHANGED <<store, page, inflight>>

Next ==
  \/ InsertJob
  \/ GetBenchmarkResults
  \/ GetBenchmarkResult
  \/ PostBenchmarkResult
  \/ DeleteBenchmarkResult
  \/ GetLeaderboardPivoted
  \/ GetLeaderboardPivotedWithImprovement
  \/ Respond

Spec == Init /\ [][Next]_vars

----------------------------------------------------------------------------
(* The flat route alone, on the graphs with every kind of metrics *)

SelectionScenarios == {"Selection", "DuplicateBase"}

SelectionInit == Start(SelectionScenarios)

SelectionNext ==
  \/ InsertJob
  \/ GetBenchmarkResults
  \/ Respond

SelectionSpec == SelectionInit /\ [][SelectionNext]_vars

----------------------------------------------------------------------------
(* The improvement route alone, on the graphs with two agents *)

AgentsScenarios == {"TwoAgents", "TwoAgentsDuplicate"}

AgentsInit == Start(AgentsScenarios)

AgentsNext ==
  \/ InsertJob
  \/ GetLeaderboardPivotedWithImprovement
  \/ Respond

AgentsSpec == AgentsInit /\ [][AgentsNext]_vars

----------------------------------------------------------------------------
(* The improvement route alone, on the graphs with chained duplicates and  *)
(* with models that share a name                                           *)

CatalogScenarios == {"Chain", "NameClash"}

CatalogInit == Start(CatalogScenarios)

CatalogNext ==
  \/ InsertJob
  \/ GetLeaderboardPivotedWithImprovement
  \/ Respond

CatalogSpec == CatalogInit /\ [][CatalogNext]_vars

----------------------------------------------------------------------------
(* GET /api/leaderboard-pivoted-with-improvement await by await, while the  *)
(* external writer appends to the store                                     *)

\* the answers of the handler when all its reads see the present content of the store
AtomicAnswers ==
  {LeaderboardPivotedWithImprovement(getAllBenchmarkResultsWithImprovement(rows),
                                     getAllModels(order, agents)) :
     rows \in leaderboard_results, order \in TableOrders(models)}

\* the handler's awaits that have not returned yet
Awaiting == {"awaiting-results", "awaiting-models", "awaiting-agents"}

\* every step taken between the start of a request and its answer notes the content the
\* store has when the step begins, so each content of that interval is noted
Record ==
  snapshotAnswers' = IF lastRequest \in Awaiting THEN snapshotAnswers \cup AtomicAnswers
                     ELSE snapshotAnswers

\* the rows the writer may add to agents and models
NewAgent == Agent("a2", "agentB")

NewModel == Model("m9", "tuned", "a1", Some("m1"), NULL)

\* the writer registers a job, whether or not a request is in progress
AppendJob ==
  /\ lastRequest \in Awaiting \cup {"none"}
  /\ Cardinality(sandbox_jobs) < MaxJobs
  /\ \E a \in agents, m \in models, b \in benchmarks,
        metrics \in Scenarios[scenario].metrics, stamp \in Scenarios[scenario].stamps :
       sandbox_jobs' = sandbox_jobs \cup
         {[agent_id |-> a.id, model_id |-> m.id, benchmark_id |-> b.id,
           metrics |-> metrics, ended_at |-> stamp.ended_at, created_at |-> stamp.created_at]}
  /\ sandbox_jobs' # sandbox_jobs
  /\ UNCHANGED <<scenario, agents, models, benchmarks, serverTz, request, page, fetchedModels>>
  /\ Record

\* the writer registers a model
AppendModel ==
  /\ lastRequest \in Awaiting \cup {"none"}
  /\ NewModel \notin models
  /\ models' = models \cup {NewModel}
  /\ UNCHANGED <<scenario, agents, benchmarks, sandbox_jobs, serverTz, request, page,
                 fetchedModels>>
  /\ Record

\* the writer registers an agent
AppendAgent ==
  /\ lastRequest \in Awaiting \cup {"none"}
  /\ NewAgent \notin agents
  /\ agents' = agents \cup {NewAgent}
  /\ UNCHANGED <<scenario, models, benchmarks, sandbox_jobs, serverTz, request, page,
                 fetchedModels>>
  /\ Record

\* the request arrives: the handler calls getAllBenchmarkResultsWithImprovement()
BeginRequest ==
  /\ lastRequest = "none"
  /\ lastRequest' = "awaiting-results"
  /\ snapshotAnswers' = AtomicAnswers
  /\ UNCHANGED <<store, page, fetchedModels, requestBody, storeError, status, data,
                 flatResponse, pivotedResponse, improvementResults, improvementResponse>>

\* SELECT * FROM leaderboard_results returns; the loop runs, getAllModels() is called
ResultsReturn ==
  /\ lastRequest = "awaiting-results"
  /\ \E rows \in leaderboard_results :
       /\ data' = rows
       /\ improvementResults' = getAllBenchmarkResultsWithImprovement(rows)
  /\ lastRequest' = "awaiting-models"
  /\ Record
  /\ UNCHANGED <<store, page, fetchedModels, requestBody, storeError, status, flatResponse,
                 pivotedResponse, improvementResponse>>

\* the read of the models table returns; the read of the agents table is issued
ModelsReturn ==
  /\ lastRequest = "awaiting-models"
  /\ fetchedModels' \in TableOrders(models)
  /\ lastRequest' = "awaiting-agents"
  /\ Record
  /\ UNCHANGED <<store, page, requestBody, storeError, status, data,
                 flatResponse, pivotedResponse, improvementResults, improvementResponse>>

\* the read of the agents table returns; the rest of the handler runs and answers
AgentsReturn ==
  /\ lastRequest = "awaiting-agents"
  /\ LET answer == LeaderboardPivotedWithImprovementAnswer(
                     Return(improvementResults), Return(getAllModels(fetchedModels, agents)))
     IN  /\ improvementResponse' = answer.body
         /\ status' = answer.status
  /\ lastRequest' = "leaderboard-pivoted-with-improvement"
  /\ Record
  /\ UNCHANGED <<store, page, fetchedModels, requestBody, storeError, data, flatResponse,
                 pivotedResponse, improvementResults>>

\* the response has been sent: nothing of the request is kept
EndRequest ==
  /\ lastRequest = "leaderboard-pivoted-with-improvement"
  /\ lastRequest' = "none"
  /\ status' = 0
  /\ data' = << >>
  /\ improvementResults' = << >>
  /\ improvementResponse' = << >>
  /\ fetchedModels' = << >>
  /\ snapshotAnswers' = {}
  /\ UNCHANGED <<store, page, requestBody, storeError, flatResponse, pivotedResponse>>

IngestionInit == Start({"Ingestion"})

IngestionNext ==
  \/ AppendJob
  \/ AppendModel
  \/ AppendAgent
  \/ BeginRequest
  \/ ResultsReturn
  \/ ModelsReturn
  \/ AgentsReturn
  \/ EndRequest

IngestionSpec == IngestionInit /\ [][IngestionNext]_vars

----------------------------------------------------------------------------
(* The Leaderboard page in front of the server *)

\* the page shows the rows of a successful answer
PageShowsData == lastRequest = "leaderboard-pivoted-with-improvement" /\ status = 200

\* the entity graphs in which the four base accuracies can differ
PageScenarios == {"BaseModel", "DuplicateBase"}

PageInit == Init /\ scenario \in PageScenarios

\* onCheckedChange of "Show duplicate models"
SetShowDuplicateModels ==
  /\ PageShowsData
  /\ showDuplicateModels' = ~showDuplicateModels
  /\ UNCHANGED <<store, request, inflight, filters, showDuplicateBenchmarks>>

\* onCheckedChange of "Show duplicate benchmarks"
SetShowDuplicateBenchmarks ==
  /\ PageShowsData
  /\ showDuplicateBenchmarks' = ~showDuplicateBenchmarks
  /\ UNCHANGED <<store, request, inflight, filters, showDuplicateModels>>

\* the page is left: its state is gone, the next visit starts from the defaults
LeavePage ==
  /\ lastRequest # "none"
  /\ lastRequest' = "none"
  /\ requestBody' = "none"
  /\ storeError' = "none"
  /\ status' = 0
  /\ data' = << >>
  /\ flatResponse' = << >>
  /\ pivotedResponse' = << >>
  /\ improvementResults' = << >>
  /\ improvementResponse' = << >>
  /\ showDuplicateModels' = FALSE
  /\ showDuplicateBenchmarks' = FALSE
  /\ UNCHANGED <<store, filters, inflight>>

PageNext ==
  \/ InsertJob
  \/ GetLeaderboardPivotedWithImprovement
  \/ SetShowDuplicateModels
  \/ SetShowDuplicateBenchmarks
  \/ LeavePage

PageSpec == PageInit /\ [][PageNext]_vars

----------------------------------------------------------------------------
(* client/src/pages/Leaderboard.tsx: the view mode (Top N + Recent N) *)

\* Number.MAX_SAFE_INTEGER, the value the "All" option stores; 2^53 - 1 in the program,
\* here the largest integer of the model
MAX_SAFE_INTEGER == 2147483647

\* -Infinity: below every accuracy
NegInfinity == -1

\* Array.from(benchmarkSet).sort() over the rows' benchmark names (the scenarios'
\* benchmark names sort alike by code unit and by collation)
RECURSIVE SortNames(_)
SortNames(S) ==
  IF S = {} THEN << >>
  ELSE LET n == CHOOSE n \in S : \A o \in S : NameRank(n) <= NameRank(o)
       IN  <<n>> \o SortNames(S \ {n})

AvailableBenchmarksOf(rows) ==
  SortNames(UNION {DOMAIN rows[i].benchmarks : i \in 1..Len(rows)})

availableBenchmarks == AvailableBenchmarksOf(pivotedData)

\* array.filter(keep)
RECURSIVE FilterSeq(_, _)
FilterSeq(seq, keep) ==
  IF seq = << >> THEN << >>
  ELSE (IF Head(seq) \in keep THEN <<Head(seq)>> ELSE << >>) \o FilterSeq(Tail(seq), keep)

Range(seq) == {seq[i] : i \in 1..Len(seq)}

\* duplicateName -> canonicalName, from the cells that carry benchmarkDuplicateOf
\* (the last row that has the name sets the entry)
benchmarkDuplicateMap ==
  LET carries(i, n) == /\ n \in DOMAIN pivotedData[i].benchmarks
                       /\ pivotedData[i].benchmarks[n].benchmarkDuplicateOf # NULL
                       /\ pivotedData[i].benchmarks[n].canonicalBenchmarkName # NULL
      names == {n \in Range(availableBenchmarks) :
                  \E i \in 1..Len(pivotedData) : carries(i, n)}
  IN  [n \in names |->
         LET last == CHOOSE i \in 1..Len(pivotedData) :
                       /\ carries(i, n)
                       /\ \A k \in 1..Len(pivotedData) : carries(k, n) => k <= i
         IN  Get(pivotedData[last].benchmarks[n].canonicalBenchmarkName)]

\* canonicalName -> its duplicate names
canonicalToDuplicatesMap(canonicalName) ==
  FilterSeq(availableBenchmarks,
            {n \in DOMAIN benchmarkDuplicateMap : benchmarkDuplicateMap[n] = canonicalName})

\* the benchmarks the Top N Performers dropdown offers
canonicalBenchmarks ==
  FilterSeq(availableBenchmarks, Range(availableBenchmarks) \ DOMAIN benchmarkDuplicateMap)

\* the row's cells under the duplicates of benchmarkName, in the duplicates' order
DuplicateResults(row, benchmarkName) ==
  FilterSeq(canonicalToDuplicatesMap(benchmarkName), DOMAIN row.benchmarks)

getAccuracyForSorting(row, benchmarkName) ==
  IF benchmarkName \in DOMAIN row.benchmarks
  THEN row.benchmarks[benchmarkName].accuracy
  ELSE IF DuplicateResults(row, benchmarkName) = << >> THEN NegInfinity
  ELSE row.benchmarks[DuplicateResults(row, benchmarkName)[1]].accuracy

\* rows with the selected benchmark or any of its duplicates
HasBenchmark(row) ==
  \/ topPerformerBenchmark \in DOMAIN row.benchmarks
  \/ DuplicateResults(row, topPerformerBenchmark) # << >>

\* the rows of pivotedData that satisfy keep, in their order
RECURSIVE FilterRows(_, _)
FilterRows(rows, keep) ==
  IF rows = << >> THEN << >>
  ELSE (IF keep[Len(keep) - Len(rows) + 1] THEN <<Head(rows)>> ELSE << >>)
       \o FilterRows(Tail(rows), keep)

dataWithBenchmark ==
  FilterRows(pivotedData, [i \in 1..Len(pivotedData) |-> HasBenchmark(pivotedData[i])])

\* a page that dates its rows by their evaluations alone
getEffectiveTimestampOfEvaluations(row) == row.latestEvalEndedAt

\* row.latestEvalEndedAt || row.modelCreatedAt
getEffectiveTimestamp(row) == COALESCE(row.latestEvalEndedAt, row.modelCreatedAt)

\* ts && ts !== '-' : the server sends a formatted time or nothing
dataWithTimestamp ==
  FilterRows(pivotedData,
             [i \in 1..Len(pivotedData) |-> getEffectiveTimestamp(pivotedData[i]) # NULL])

\* new Date(ts).getTime() of "YYYY-MM-DD HH:MM:SS", read on the browser's clock: hours
DateOf(ts) == ts[1] * 24 + ts[2]

\* [...rows].sort((a, b) => key(b) - key(a)): descending, equal keys keep their order
SortDescending(rows, keys) ==
  LET rank(i) == 1 + Cardinality({j \in 1..Len(rows) :
                                    keys[j] > keys[i] \/ (keys[j] = keys[i] /\ j < i)})
  IN  [p \in 1..Len(rows) |-> rows[CHOOSE i \in 1..Len(rows) : rank(i) = p]]

\* a page whose counts cut nothing
SliceNothing(rows, n) == rows

\* .slice(0, n === Number.MAX_SAFE_INTEGER ? undefined : n)
Slice(rows, n) ==
  IF n = MAX_SAFE_INTEGER \/ n >= Len(rows) THEN rows ELSE SubSeq(rows, 1, n)

topPerformers ==
  LET rows == dataWithBenchmark
  IN  Slice(SortDescending(rows,
              [i \in 1..Len(rows) |-> getAccuracyForSorting(rows[i], topPerformerBenchmark)]),
            topN)

mostRecent ==
  LET rows == dataWithTimestamp
  IN  Slice(SortDescending(rows,
              [i \in 1..Len(rows) |-> DateOf(Get(getEffectiveTimestamp(rows[i])))]),
            recentN)

\* rows.forEach(row => uniqueMap.set(key, row)): a new key is appended, a known key
\* keeps its place and takes the new row
RECURSIVE UniqueMapSet(_, _)
UniqueMapSet(uniqueMap, rows) ==
  IF rows = << >> THEN uniqueMap
  ELSE LET row == Head(rows)
           hits == GroupAt(uniqueMap, GroupKey(row.modelName, row.agentName))
       IN  UniqueMapSet(IF hits = {} THEN Append(uniqueMap, row)
                        ELSE [uniqueMap EXCEPT ![CHOOSE i \in hits : TRUE] = row],
                        Tail(rows))

\* what the table of the page is given
filteredByViewMode ==
  IF activeTab = "all" THEN pivotedData
  ELSE UniqueMapSet(UniqueMapSet(<< >>, topPerformers), mostRecent)

\* client/src/config/benchmarkConfig.ts: the benchmarks shown by default
DEFAULT_VISIBLE_BENCHMARKS == <<"dev_set_71_tasks", "dev_set_v2">>

\* DEFAULT_VISIBLE_BENCHMARKS.filter(benchmark => availableBenchmarks.includes(benchmark))
ValidDefaults(rows) ==
  FilterSeq(DEFAULT_VISIBLE_BENCHMARKS, Range(AvailableBenchmarksOf(rows)))

\* a page that applies the defaults on every load
EveryLoad(rows) == Len(rows) > 0

\* if (pivotedData.length > 0 && !hasInitializedBenchmarks.current)
FirstLoad(rows) == Len(rows) > 0 /\ ~hasInitializedBenchmarks

\* useQuery settles: a successful answer becomes pivotedData, a failed one leaves the
\* rows as they were; then the effect on [pivotedData, availableBenchmarks] runs
QuerySettles ==
  /\ lastRequest = "leaderboard-pivoted-with-improvement"
  /\ LET delivered == IF status = 200 THEN improvementResponse ELSE pivotedData
     IN  /\ pivotedData' = delivered
         /\ hasInitializedBenchmarks' = (hasInitializedBenchmarks \/ FirstLoad(delivered))
         /\ selectedBenchmarks' =
              IF FirstLoad(delivered) /\ ValidDefaults(delivered) # << >>
              THEN ValidDefaults(delivered) ELSE selectedBenchmarks
  /\ lastRequest' = "none"
  /\ requestBody' = "none"
  /\ storeError' = "none"
  /\ status' = 0
  /\ data' = << >>
  /\ flatResponse' = << >>
  /\ pivotedResponse' = << >>
  /\ improvementResults' = << >>
  /\ improvementResponse' = << >>
  /\ UNCHANGED <<store, inflight, showDuplicateModels, showDuplicateBenchmarks, activeTab,
                 topN, recentN, topPerformerBenchmark>>

\* the page shows rows and no load is under way: the controls are at hand
ControlsAtHand == lastRequest = "none" /\ pivotedData # << >>

\* <Tabs onValueChange={(v) => setActiveTab(v)}>
SetActiveTab ==
  /\ ControlsAtHand
  /\ \E v \in {"filtered", "all"} : activeTab' = v
  /\ UNCHANGED <<store, request, inflight, showDuplicateModels, showDuplicateBenchmarks,
                 pivotedData, topN, recentN, topPerformerBenchmark, selectedBenchmarks,
                 hasInitializedBenchmarks>>

\* the options of the count dropdowns that are explored (of '0', '1', '5', '10', '25',
\* '50', '100', 'all')
DISPLAY_OPTIONS == {"0", "1", "50", "all"}

\* parseInt(value, 10)
ParseInt(value) ==
  CASE value = "0" -> 0
    [] value = "1" -> 1
    [] value = "50" -> 50

\* value === 'all' ? Number.MAX_SAFE_INTEGER : parseInt(value, 10)
handleTopNChange(value) == IF value = "all" THEN MAX_SAFE_INTEGER ELSE ParseInt(value)

\* onTopNChange={setTopN}
SetTopN ==
  /\ ControlsAtHand
  /\ \E value \in DISPLAY_OPTIONS : topN' = handleTopNChange(value)
  /\ UNCHANGED <<store, request, inflight, showDuplicateModels, showDuplicateBenchmarks,
                 pivotedData, activeTab, recentN, topPerformerBenchmark, selectedBenchmarks,
                 hasInitializedBenchmarks>>

\* onRecentNChange={setRecentN}, with the numbers the count dropdowns hand over
SetRecentN ==
  /\ ControlsAtHand
  /\ \E value \in DISPLAY_OPTIONS : recentN' = handleTopNChange(value)
  /\ UNCHANGED <<store, request, inflight, showDuplicateModels, showDuplicateBenchmarks,
                 pivotedData, activeTab, topN, topPerformerBenchmark, selectedBenchmarks,
                 hasInitializedBenchmarks>>

\* onTopPerformerBenchmarkChange={setTopPerformerBenchmark}: one of canonicalBenchmarks
SetTopPerformerBenchmark ==
  /\ ControlsAtHand
  /\ \E value \in Range(canonicalBenchmarks) : topPerformerBenchmark' = value
  /\ UNCHANGED <<store, request, inflight, showDuplicateModels, showDuplicateBenchmarks,
                 pivotedData, activeTab, topN, recentN, selectedBenchmarks,
                 hasInitializedBenchmarks>>

\* the writer fills the store before the page is opened
InsertJobBeforeVisit == pivotedData = << >> /\ InsertJob

\* the query of the page that has no rows yet (the view mode is explored on the rows of
\* one load; refetches over a changing store are explored in FilterSpec)
LoadPage == pivotedData = << >> /\ GetLeaderboardPivotedWithImprovement

ViewModeInit == Start({"Board"})

ViewModeNext ==
  \/ InsertJobBeforeVisit
  \/ LoadPage
  \/ QuerySettles
  \/ SetActiveTab
  \/ SetTopN
  \/ SetRecentN
  \/ SetTopPerformerBenchmark

ViewModeSpec == ViewModeInit /\ [][ViewModeNext]_vars

----------------------------------------------------------------------------
(* client/src/pages/Leaderboard.tsx, components/FilterControlsWithBaseModel.tsx: *)
(* the benchmark filter                                                         *)

\* the filter controls list the benchmarks of the rows shown
FiltersAtHand == pivotedData # << >>

\* the checkbox of one benchmark
toggleBenchmark ==
  /\ FiltersAtHand
  /\ \E benchmark \in Range(availableBenchmarks) :
       selectedBenchmarks' =
         IF benchmark \in Range(selectedBenchmarks)
         THEN FilterSeq(selectedBenchmarks, Range(selectedBenchmarks) \ {benchmark})
         ELSE Append(selectedBenchmarks, benchmark)
  /\ UNCHANGED <<store, request, inflight, showDuplicateModels, showDuplicateBenchmarks,
                 pivotedData, activeTab, topN, recentN, topPerformerBenchmark,
                 hasInitializedBenchmarks>>

\* "Clear" in the Benchmark Columns popover: onBenchmarksChange([])
ClearBenchmarks ==
  /\ FiltersAtHand
  /\ selectedBenchmarks' = << >>
  /\ UNCHANGED <<store, request, inflight, showDuplicateModels, showDuplicateBenchmarks,
                 pivotedData, activeTab, topN, recentN, topPerformerBenchmark,
                 hasInitializedBenchmarks>>

\* "Clear All Filters"
handleClearFilters ==
  /\ FiltersAtHand
  /\ selectedBenchmarks' = << >>
  /\ UNCHANGED <<store, request, inflight, showDuplicateModels, showDuplicateBenchmarks,
                 pivotedData, activeTab, topN, recentN, topPerformerBenchmark,
                 hasInitializedBenchmarks>>

\* "Reset to Defaults"
handleResetFilters ==
  /\ FiltersAtHand
  /\ selectedBenchmarks' = ValidDefaults(pivotedData)
  /\ UNCHANGED <<store, request, inflight, showDuplicateModels, showDuplicateBenchmarks,
                 pivotedData, activeTab, topN, recentN, topPerformerBenchmark,
                 hasInitializedBenchmarks>>

FilterInit == Start({"Defaults"})

FilterNext ==
  \/ InsertJob
  \/ GetLeaderboardPivotedWithImprovement
  \/ QuerySettles
  \/ toggleBenchmark
  \/ ClearBenchmarks
  \/ handleClearFilters
  \/ handleResetFilters

FilterSpec == FilterInit /\ [][FilterNext]_vars

----------------------------------------------------------------------------
(* What the properties speak of, read off the stored tables *)

\* the request to `route` has been answered with the rows it asked for
Answered(route) == lastRequest = route /\ status = 200

\* a request has read the view and its answer is at hand
ViewRead ==
  \/ Answered("benchmark-results")
  \/ Answered("leaderboard-pivoted")
  \/ Answered("leaderboard-pivoted-with-improvement")

\* the jobs with non-null metrics
QualifyingJobs == {j \in sandbox_jobs : j.metrics # NULL}

AgentOf(j) == CHOOSE a \in agents : a.id = j.agent_id

ModelOf(j) == CHOOSE m \in models : m.id = j.model_id

BenchmarkOf(j) == CHOOSE b \in benchmarks : b.id = j.benchmark_id

\* the canonical benchmark of a benchmark: the one duplicate_of names, else itself
CanonicalOf(b) ==
  IF \E c \in benchmarks : b.duplicate_of = {c.id}
  THEN CHOOSE c \in benchmarks : b.duplicate_of = {c.id}
  ELSE b

\* the (agent name, model name, canonical benchmark name) triple of a job
NameTriple(j) == <<AgentOf(j).name, ModelOf(j).name, CanonicalOf(BenchmarkOf(j)).name>>

\* the canonical benchmark id of a benchmark: duplicate_of if set, else its id
CanonicalIdOf(b) == IF b.duplicate_of # {} THEN Get(b.duplicate_of) ELSE b.id

\* the (agent id, model id, canonical benchmark id) triple of a job
IdTriple(j) == <<j.agent_id, j.model_id, CanonicalIdOf(BenchmarkOf(j))>>

\* the accuracy of a job in thousandths of a percent; {} when it has no accuracy metric
AccuracyOf(j) ==
  LET m == Get(j.metrics)
  IN  IF \E i \in 1..Len(m) : m[i].name = "accuracy"
      THEN {100 * m[CHOOSE i \in 1..Len(m) :
                      m[i].name = "accuracy" /\ \A k \in 1..(i - 1) : m[k].name # "accuracy"].value}
      ELSE {}

StderrOf(j) ==
  LET m == Get(j.metrics)
  IN  IF \E i \in 1..Len(m) : m[i].name = "accuracy_stderr"
      THEN {100 * m[CHOOSE i \in 1..Len(m) :
                      m[i].name = "accuracy_stderr"
                      /\ \A k \in 1..(i - 1) : m[k].name # "accuracy_stderr"].value}
      ELSE {}

\* ended_at, else created_at
EffectiveTimestamp(j) == IF j.ended_at # {} THEN Get(j.ended_at) ELSE j.created_at

\* accuracy above 1.0%
MeetsThreshold(j) == \E v \in AccuracyOf(j) : v > 1000

\* the view row `row` reports the job j
RowReports(row, j) ==
  /\ row.agent_id = j.agent_id
  /\ row.model_id = j.model_id
  /\ row.source_benchmark_id = j.benchmark_id
  /\ row.accuracy = AccuracyOf(j)
  /\ row.standard_error = StderrOf(j)
  /\ row.ended_at = {EffectiveTimestamp(j)}

\* the rows the view returned for a name triple
RowsOf(triple) ==
  {i \in 1..Len(data) :
     <<data[i].agent_name, data[i].model_name, data[i].benchmark_name>> = triple}

\* the merge pool of a name triple
Pool(triple) == {j \in QualifyingJobs : NameTriple(j) = triple}

Pools == {NameTriple(j) : j \in QualifyingJobs}

----------------------------------------------------------------------------
(* C1  Threshold preference: when a merge pool holds a job above 1.0%, the    *)
(* row the view returns for the pool reports a job above 1.0% whose effective *)
(* timestamp is the smallest among the pool's jobs above 1.0%: never an       *)
(* earlier job at or below the threshold, never a later one of higher         *)
(* accuracy.                                                                  *)
ThresholdPreference ==
  ViewRead =>
    \A triple \in Pools :
      LET passing == {j \in Pool(triple) : MeetsThreshold(j)}
      IN  passing # {} =>
            /\ RowsOf(triple) # {}
            /\ \A i \in RowsOf(triple) :
                 \E j \in passing :
                   /\ RowReports(data[i], j)
                   /\ \A k \in passing : EffectiveTimestamp(j) <= EffectiveTimestamp(k)

\* a pool with a glitchy early job, the winner above the threshold and a later, better job
ThresholdPreferenceWitness ==
  /\ ViewRead
  /\ \E triple \in Pools :
       \E low, win, high \in Pool(triple) :
         /\ ~MeetsThreshold(low) /\ MeetsThreshold(win) /\ MeetsThreshold(high)
         /\ EffectiveTimestamp(low) < EffectiveTimestamp(win)
         /\ EffectiveTimestamp(win) < EffectiveTimestamp(high)
         /\ \E a \in AccuracyOf(win), b \in AccuracyOf(high) : a < b
         /\ \E i \in RowsOf(triple) : RowReports(data[i], win)

(* C2  Threshold fallback: when every job of a merge pool has an accuracy at  *)
(* or below 1.0%, the view still returns a row for the pool, and it reports   *)
(* the job of smallest effective timestamp in the whole pool, whatever its    *)
(* accuracy.                                                                  *)
ThresholdFallback ==
  ViewRead =>
    \A triple \in Pools :
      (\A j \in Pool(triple) : \E v \in AccuracyOf(j) : v <= 1000) =>
        /\ RowsOf(triple) # {}
        /\ \A i \in RowsOf(triple) :
             \E j \in Pool(triple) :
               /\ RowReports(data[i], j)
               /\ \A k \in Pool(triple) : EffectiveTimestamp(j) <= EffectiveTimestamp(k)

\* a pool of two glitchy jobs, the later of higher accuracy, the earlier one reported
ThresholdFallbackWitness ==
  /\ ViewRead
  /\ \E triple \in Pools :
       /\ \A j \in Pool(triple) : \E v \in AccuracyOf(j) : v <= 1000
       /\ \E first, second \in Pool(triple) :
            /\ EffectiveTimestamp(first) < EffectiveTimestamp(second)
            /\ \E a \in AccuracyOf(first), b \in AccuracyOf(second) : a < b
            /\ \E i \in RowsOf(triple) : RowReports(data[i], first)

(* C3  Uniqueness: for every (agent name, model name, canonical benchmark     *)
(* name) triple that has a job with non-null metrics, getAllBenchmarkResults  *)
(* (and getAllBenchmarkResultsWithImprovement) returns exactly one result.    *)
ResultsOf(results, triple) ==
  {i \in 1..Len(results) :
     <<results[i].agentName, results[i].modelName, results[i].benchmarkName>> = triple}

\* C3: every (agent name, model name, benchmark name) triple has at most one result
Uniqueness ==
  /\ Answered("benchmark-results") =>
       \A triple \in Pools : Cardinality(ResultsOf(flatResponse, triple)) = 1
  /\ Answered("leaderboard-pivoted-with-improvement") =>
       \A triple \in Pools : Cardinality(ResultsOf(improvementResults, triple)) = 1

\* two triples, one of them with jobs on a canonical benchmark and on its duplicate
UniquenessWitness ==
  /\ Answered("benchmark-results")
  /\ Cardinality(Pools) = 2
  /\ \E triple \in Pools :
       \E j, k \in Pool(triple) : j.benchmark_id # k.benchmark_id
  /\ Len(flatResponse) = 2

(* C4  Merge across duplicates with provenance: every result reports a job of *)
(* its pool; its source benchmark id and name are those of the benchmark that *)
(* job targeted, its benchmark name and canonical benchmark name are the name *)
(* of the canonical benchmark; so a pool whose jobs are all on a duplicate    *)
(* yields the canonical benchmark's result with the duplicate as source.      *)
MergeAcrossDuplicates ==
  Answered("leaderboard-pivoted-with-improvement") =>
    /\ \A triple \in Pools : ResultsOf(improvementResults, triple) # {}
    /\ \A i \in 1..Len(improvementResults) :
         LET result == improvementResults[i]
             pool == Pool(<<result.agentName, result.modelName, result.benchmarkName>>)
         IN  \E j \in pool :
               /\ RowReports(data[i], j)
               /\ result.sourceBenchmarkId = j.benchmark_id
               /\ result.sourceBenchmarkName = BenchmarkOf(j).name
               /\ result.benchmarkName = CanonicalOf(BenchmarkOf(j)).name
               /\ result.canonicalBenchmarkName = CanonicalOf(BenchmarkOf(j)).name
               /\ result.benchmarkId = CanonicalOf(BenchmarkOf(j)).id

\* the spec's scenario: the jobs of a model are all on the duplicate of a benchmark
MergeAcrossDuplicatesWitness ==
  /\ Answered("leaderboard-pivoted-with-improvement")
  /\ \E i \in 1..Len(improvementResults) :
       LET result == improvementResults[i]
           pool == Pool(<<result.agentName, result.modelName, result.benchmarkName>>)
       IN  /\ \A j \in pool : BenchmarkOf(j).duplicate_of # {}
           /\ result.sourceBenchmarkId = "b2"
           /\ result.sourceBenchmarkName = "dev_v2"
           /\ result.benchmarkName = "dev"
           /\ result.canonicalBenchmarkName = "dev"
           /\ result.accuracy = 80000

(* C5  Pool membership goes by name: among the jobs with non-null metrics,    *)
(* the jobs of one (agent name, model name, canonical benchmark name) triple  *)
(* compete for one row - at most one of them is reported - and every such     *)
(* triple has a job that is reported; entities that share a name are pooled.  *)
Reported(j) == \E i \in 1..Len(data) : RowReports(data[i], j)

\* C5 (amended): jobs are pooled by the name triple, one reported job per pool
PoolByName ==
  ViewRead =>
    /\ \A j, k \in QualifyingJobs :
         (NameTriple(j) = NameTriple(k) /\ Reported(j) /\ Reported(k)) => j = k
    /\ \A j \in QualifyingJobs :
         \E k \in QualifyingJobs : NameTriple(k) = NameTriple(j) /\ Reported(k)

\* jobs of two models that share a name: one of the two models is reported
PoolByNameWitness ==
  /\ ViewRead
  /\ \E j, k \in QualifyingJobs :
       /\ j.model_id # k.model_id
       /\ NameTriple(j) = NameTriple(k)
       /\ Reported(j) /\ ~Reported(k)

\* C5 as written: pools go by (agent id, model id, canonical benchmark id)
PoolByIdentity ==
  ViewRead =>
    /\ \A j, k \in QualifyingJobs :
         (IdTriple(j) = IdTriple(k) /\ Reported(j) /\ Reported(k)) => j = k
    /\ \A j \in QualifyingJobs :
         \E k \in QualifyingJobs : IdTriple(k) = IdTriple(j) /\ Reported(k)

(* C6  A job without metrics (metrics null, or an empty metrics list) never   *)
(* wins a pool, and a triple whose jobs all lack metrics has no result row:   *)
(* every row the view returns reports a job that has at least one metric.     *)
NoMetricsExcluded ==
  ViewRead =>
    \A i \in 1..Len(data) :
      \E j \in sandbox_jobs :
        /\ j.metrics # {}
        /\ Get(j.metrics) # << >>
        /\ RowReports(data[i], j)

(* C7  MissingMetric: when the winning job has no accuracy (no                *)
(* accuracy_stderr) metric, the accuracy (standard error) of the result and   *)
(* of the pivoted cell is absent, not 0, and the cell has no improvement.     *)
\* the pivoted cell of the i-th result: in the row filed under the result's key
CellOf(i) ==
  LET result == improvementResults[i]
      k == CHOOSE k \in 1..Len(improvementResponse) :
             GroupKey(improvementResponse[k].modelName, improvementResponse[k].agentName)
               = GroupKey(result.modelName, result.agentName)
  IN  improvementResponse[k].benchmarks[result.benchmarkName]

\* the i-th row reports a job that has metrics
HasMetrics(i) ==
  \E j \in sandbox_jobs :
    j.metrics # {} /\ Get(j.metrics) # << >> /\ RowReports(data[i], j)

\* C7: a reported job's missing accuracy / accuracy_stderr is absent, never the number 0
MissingMetricAbsent ==
  Answered("leaderboard-pivoted-with-improvement") =>
    \A i \in {k \in 1..Len(improvementResults) : HasMetrics(k)} :
      /\ data[i].accuracy = {} =>
           /\ improvementResults[i].accuracy # 0
           /\ CellOf(i).accuracy # 0
           /\ CellOf(i).improvement = {}
      /\ data[i].standard_error = {} =>
           /\ improvementResults[i].standardError # 0
           /\ CellOf(i).standardError # 0

(* C8  Base-accuracy absence: a result whose model has no base model          *)
(* (base_model_id null) has none of the four base accuracies, in the results  *)
(* of the storage layer and in the pivoted cell.                              *)
ModelById(id) == CHOOSE m \in models : m.id = id

NoBaseAccuracy(x) ==
  /\ x.baseModelAccuracy = {}
  /\ x.canonicalBenchmarkBaseModelAccuracy = {}
  /\ x.canonicalBaseModelAccuracy = {}
  /\ x.canonicalBothBaseModelAccuracy = {}

\* C8: a result of a model without base model has all four base accuracies absent
BaseAccuracyAbsence ==
  Answered("leaderboard-pivoted-with-improvement") =>
    \A i \in 1..Len(improvementResults) :
      ModelById(improvementResults[i].modelId).base_model_id = {} =>
        NoBaseAccuracy(improvementResults[i]) /\ NoBaseAccuracy(CellOf(i))

\* a foundation model with a result, next to a fine-tuned model that has a base accuracy
BaseAccuracyAbsenceWitness ==
  /\ Answered("leaderboard-pivoted-with-improvement")
  /\ \E i, k \in 1..Len(improvementResults) :
       /\ ModelById(improvementResults[i].modelId).base_model_id = {}
       /\ improvementResults[i].accuracy = 80000
       /\ NoBaseAccuracy(CellOf(i))
       /\ improvementResults[k].baseModelAccuracy = {80000}

(* C9  No sentinel zero: a base accuracy of a result is absent when no job of *)
(* the resolved model on the result's benchmark group, by the result's agent, *)
(* has an accuracy; a base accuracy of 0 is the accuracy of such a job.       *)
\* the model a variant resolves to: base, or the canonical model of base
BaseRef(result) == result.baseModelId

CanonicalBaseRef(result) ==
  IF result.baseModelId = {} THEN {}
  ELSE IF ModelById(Get(result.baseModelId)).duplicate_of # {}
       THEN ModelById(Get(result.baseModelId)).duplicate_of
       ELSE result.baseModelId

\* the jobs a base accuracy of `result` may come from, for the resolved model `ref`
BaseCandidates(result, ref) ==
  {j \in QualifyingJobs :
     /\ j.agent_id = result.agentId
     /\ {j.model_id} = ref
     /\ AccuracyOf(j) # {}
     /\ CanonicalIdOf(BenchmarkOf(j)) = result.benchmarkId}

\* the four variants of a result or cell x, each with the model it resolves to
Variants(x, result) ==
  {<<x.baseModelAccuracy, BaseRef(result)>>,
   <<x.canonicalBenchmarkBaseModelAccuracy, BaseRef(result)>>,
   <<x.canonicalBaseModelAccuracy, CanonicalBaseRef(result)>>,
   <<x.canonicalBothBaseModelAccuracy, CanonicalBaseRef(result)>>}

\* C9: a base accuracy is absent when no base job qualifies, and a 0 is a job's own value
NoSentinelZero ==
  Answered("leaderboard-pivoted-with-improvement") =>
    \A i \in 1..Len(improvementResults) :
      \A v \in Variants(improvementResults[i], improvementResults[i])
               \cup Variants(CellOf(i), improvementResults[i]) :
        /\ BaseCandidates(improvementResults[i], v[2]) = {} => v[1] = {}
        /\ v[1] = {0} =>
             \E j \in BaseCandidates(improvementResults[i], v[2]) : AccuracyOf(j) = {0}

\* a result whose base model scored 0, and a result whose base model has no job
NoSentinelZeroWitness ==
  /\ Answered("leaderboard-pivoted-with-improvement")
  /\ \E i, k \in 1..Len(improvementResults) :
       /\ improvementResults[i].baseModelId # {}
       /\ improvementResults[i].baseModelAccuracy = {0}
       /\ CellOf(i).baseModelAccuracy = {0}
       /\ improvementResults[k].baseModelId # {}
       /\ BaseCandidates(improvementResults[k], BaseRef(improvementResults[k])) = {}
       /\ CellOf(k).baseModelAccuracy = {}

(* C10  base_model_accuracy and canonical_base_model_accuracy use the         *)
(* canonical benchmark grouping: each is the accuracy of the first job, in    *)
(* threshold-then-timestamp order, among the jobs of the resolved base model  *)
(* on any benchmark of the result's duplicate group, and absent only when     *)
(* there is no such job.                                                      *)
SelectedFrom(value, candidates) ==
  IF candidates = {} THEN value = {}
  ELSE \E j \in candidates :
         /\ value = AccuracyOf(j)
         /\ \A k \in candidates :
              \/ MeetsThreshold(j) /\ ~MeetsThreshold(k)
              \/ /\ MeetsThreshold(j) = MeetsThreshold(k)
                 /\ EffectiveTimestamp(j) <= EffectiveTimestamp(k)

----------------------------------------------------------------------------
\* the jobs of the model `ref` that have an accuracy
ModelJobs(ref) == {j \in QualifyingJobs : {j.model_id} = ref /\ AccuracyOf(j) # {}}

(* C11  Canonical model resolution: base_model_accuracy and                  *)
(* canonical_benchmark_base_model_accuracy are the accuracy of a job of the  *)
(* base model itself, canonical_base_model_accuracy and                      *)
(* canonical_both_base_model_accuracy the accuracy of a job of the base      *)
(* model's duplicate_of when set, else of the base model; when the resolved  *)
(* model has no job with an accuracy the value is absent.                    *)
CanonicalModelResolution ==
  Answered("leaderboard-pivoted-with-improvement") =>
    \A i \in 1..Len(improvementResults) :
      \A v \in Variants(improvementResults[i], improvementResults[i]) :
        /\ ModelJobs(v[2]) = {} => v[1] = {}
        /\ v[1] # {} => \E j \in ModelJobs(v[2]) : AccuracyOf(j) = v[1]

\* a model fine-tuned from a duplicate: base accuracy 0% from the duplicate's job, canonical
\* base accuracy 80% from the job of the model the duplicate stands for
CanonicalModelResolutionWitness ==
  /\ Answered("leaderboard-pivoted-with-improvement")
  /\ \E i \in 1..Len(improvementResults) :
       LET result == improvementResults[i]
       IN  /\ result.baseModelId # {}
           /\ CanonicalBaseRef(result) # BaseRef(result)
           /\ result.baseModelAccuracy = {0}
           /\ result.canonicalBenchmarkBaseModelAccuracy = {0}
           /\ result.canonicalBaseModelAccuracy = {80000}
           /\ result.canonicalBothBaseModelAccuracy = {80000}

----------------------------------------------------------------------------
\* the cells of the pivoted-with-improvement answer, as <<row, benchmark name>>
Cells ==
  UNION {{<<k, n>> : n \in DOMAIN improvementResponse[k].benchmarks} :
           k \in 1..Len(improvementResponse)}

(* C12  Improvement arithmetic: in every cell of the pivoted-with-improvement *)
(* answer, improvement is accuracy minus baseModelAccuracy, a difference of   *)
(* percentages, and it is absent exactly when baseModelAccuracy is absent.    *)
ImprovementArithmetic ==
  Answered("leaderboard-pivoted-with-improvement") =>
    \A c \in Cells :
      LET cell == improvementResponse[c[1]].benchmarks[c[2]]
      IN  /\ cell.improvement = {} <=> cell.baseModelAccuracy = {}
          /\ \A base \in cell.baseModelAccuracy : cell.improvement = {cell.accuracy - base}

\* a cell 80 points below its base accuracy, and a cell without base accuracy
ImprovementArithmeticWitness ==
  /\ Answered("leaderboard-pivoted-with-improvement")
  /\ \E c, d \in Cells :
       LET cell == improvementResponse[c[1]].benchmarks[c[2]]
           other == improvementResponse[d[1]].benchmarks[d[2]]
       IN  /\ cell.accuracy = 0 /\ cell.baseModelAccuracy = {80000}
           /\ cell.improvement = {-80000}
           /\ other.baseModelAccuracy = {} /\ other.improvement = {}

----------------------------------------------------------------------------
\* the column of a view row the two checkboxes select
ChosenColumn(row, showDupModels, showDupBenchmarks) ==
  CASE showDupModels /\ showDupBenchmarks   -> row.base_model_accuracy
    [] showDupModels /\ ~showDupBenchmarks  -> row.canonical_benchmark_base_model_accuracy
    [] ~showDupModels /\ showDupBenchmarks  -> row.canonical_base_model_accuracy
    [] ~showDupModels /\ ~showDupBenchmarks -> row.canonical_both_base_model_accuracy

\* the cell the page shows for the i-th row of the view
ShownCell(i) ==
  LET shown == processedData(improvementResponse, showDuplicateModels, showDuplicateBenchmarks)
      k == CHOOSE k \in 1..Len(shown) :
             shown[k].modelName = data[i].model_name /\ shown[k].agentName = data[i].agent_name
  IN  shown[k].benchmarks[data[i].benchmark_name]

----------------------------------------------------------------------------
\* the name of the agent that owns a registered model
OwnerName(m) == (CHOOSE a \in agents : a.id = m.agent_id).name

\* the (model name, agent name) pairs of the registered models, and of the view's rows
RegisteredPairs == {<<m.name, OwnerName(m)>> : m \in models}

ResultPairs == {<<data[i].model_name, data[i].agent_name>> : i \in 1..Len(data)}

\* the rows of a pivoted answer that carry the pair
RowsOfPair(rows, pair) ==
  {k \in 1..Len(rows) : <<rows[k].modelName, rows[k].agentName>> = pair}

\* no other pair is filed under the key of this pair
KeyOfItsOwn(pair) ==
  \A other \in RegisteredPairs \cup ResultPairs :
    GroupKey(other[1], other[2]) = GroupKey(pair[1], pair[2]) => other = pair

(* C14  Zero-eval models included: a registered model that no job refers to   *)
(* has exactly one row in the pivoted-with-improvement answer, and that row   *)
(* has no benchmark cell and no first / latest evaluation timestamp.  Stated  *)
(* for the models whose (model name, agent name) key is not the key of        *)
(* another pair (C15).                                                        *)
ZeroEvalModelsIncluded ==
  Answered("leaderboard-pivoted-with-improvement") =>
    \A m \in models :
      (/\ \A j \in sandbox_jobs : j.model_id # m.id
       /\ KeyOfItsOwn(<<m.name, OwnerName(m)>>)) =>
        LET rows == RowsOfPair(improvementResponse, <<m.name, OwnerName(m)>>)
        IN  /\ Cardinality(rows) = 1
            /\ \A k \in rows :
                 /\ DOMAIN improvementResponse[k].benchmarks = {}
                 /\ improvementResponse[k].firstEvalEndedAt = {}
                 /\ improvementResponse[k].latestEvalEndedAt = {}

(* C15  Pivot grouping: a pivoted answer has exactly one row for every        *)
(* (model name, agent name) pair of the flat results (and, with improvement,  *)
(* of the registered models), and no other row, whatever the names are.       *)
PivotGrouping ==
  /\ Answered("leaderboard-pivoted") =>
       /\ Len(pivotedResponse) = Cardinality(ResultPairs)
       /\ \A pair \in ResultPairs : Cardinality(RowsOfPair(pivotedResponse, pair)) = 1
  /\ Answered("leaderboard-pivoted-with-improvement") =>
       /\ Len(improvementResponse) = Cardinality(ResultPairs \cup RegisteredPairs)
       /\ \A pair \in ResultPairs \cup RegisteredPairs :
            Cardinality(RowsOfPair(improvementResponse, pair)) = 1

----------------------------------------------------------------------------
\* the effective timestamps of the view's rows filed in the same row as `row`
TimesOf(row) ==
  {Get(data[i].ended_at) :
     i \in {k \in 1..Len(data) :
              GroupKey(data[k].model_name, data[k].agent_name)
                = GroupKey(row.modelName, row.agentName)}}

\* first and latest of the row are the earliest and the latest of its results, as formatted
EarliestAndLatest(row) ==
  LET times == TimesOf(row)
  IN  times # {} =>
        /\ row.firstEvalEndedAt =
             {FormatTimestamp(CHOOSE t \in times : \A u \in times : t <= u)}
        /\ row.latestEvalEndedAt =
             {FormatTimestamp(CHOOSE t \in times : \A u \in times : t >= u)}

(* C16  Row timestamps: in a pivoted answer, firstEvalEndedAt of a row is the *)
(* formatted timestamp of the chronologically earliest of the row's results   *)
(* and latestEvalEndedAt that of the chronologically latest.                  *)
RowTimestamps ==
  /\ Answered("leaderboard-pivoted") =>
       \A k \in 1..Len(pivotedResponse) : EarliestAndLatest(pivotedResponse[k])
  /\ Answered("leaderboard-pivoted-with-improvement") =>
       \A k \in 1..Len(improvementResponse) : EarliestAndLatest(improvementResponse[k])

----------------------------------------------------------------------------
\* the routes of the legacy create / read-one / delete surface
LegacyRoutes == {"benchmark-result", "create-benchmark-result", "delete-benchmark-result"}

(* C17  UnsupportedOperation: a request to the legacy surface changes nothing *)
(* in the store and is answered 500, the error of the storage method (400     *)
(* when the POST body does not validate): never 200, 201, 204 or 404.         *)
UnsupportedOperation ==
  [][lastRequest' \in LegacyRoutes =>
       /\ UNCHANGED store
       /\ status' = IF requestBody' = "invalid" THEN 400 ELSE 500]_vars

\* a POST with a valid body, answered 500
UnsupportedOperationWitness ==
  /\ lastRequest = "create-benchmark-result"
  /\ requestBody = "valid"
  /\ status = 500
  /\ sandbox_jobs # {}

----------------------------------------------------------------------------
(* C20  Determinism: every read of the view over the stored snapshot gives    *)
(* GET /api/benchmark-results the results this request answered with: the     *)
(* same winning job and the same field values for every triple.  Stated for  *)
(* the snapshotAnswers in which every job has an accuracy metric (C6, C7).          *)
Determinism ==
  (/\ Answered("benchmark-results")
   /\ \A j \in sandbox_jobs : j.metrics # {} /\ AccuracyOf(j) # {}) =>
    \A rows \in leaderboard_results : getAllBenchmarkResults(rows) = flatResponse

----------------------------------------------------------------------------
(* C22  A synthetic empty row is created only for models without evaluation  *)
(* rows: no row of the pivoted-with-improvement answer with an empty          *)
(* benchmarks mapping carries the id of a model that has a job with non-null  *)
(* metrics, whichever agent ran the job.                                      *)
SyntheticRowOnlyWithoutJobs ==
  Answered("leaderboard-pivoted-with-improvement") =>
    \A k \in 1..Len(improvementResponse) :
      DOMAIN improvementResponse[k].benchmarks = {} =>
        \A j \in QualifyingJobs : j.model_id # improvementResponse[k].modelId

----------------------------------------------------------------------------
\* no two jobs of a pool sort equal: the view's choice is determined (C20)
NoTiedJobs ==
  \A j, k \in QualifyingJobs :
    (/\ j # k
     /\ NameTriple(j) = NameTriple(k)
     /\ MeetsThreshold(j) = MeetsThreshold(k)) => EffectiveTimestamp(j) # EffectiveTimestamp(k)

(* C23  Base accuracy re-runs the selection rule: when the results hold a     *)
(* result for (agent, model, benchmark) and one for (the same agent, the      *)
(* model's base model, the same benchmark),                                   *)
(* canonicalBenchmarkBaseModelAccuracy of the first is the accuracy the       *)
(* second reports, also for pools with jobs that have no accuracy metric.     *)
(* Stated for the snapshotAnswers without tied jobs (C20).                          *)
BaseAccuracyRerunsSelection ==
  (Answered("leaderboard-pivoted-with-improvement") /\ NoTiedJobs) =>
    \A i, k \in 1..Len(improvementResults) :
      (/\ improvementResults[i].baseModelId = {improvementResults[k].modelId}
       /\ improvementResults[i].agentId = improvementResults[k].agentId
       /\ improvementResults[i].benchmarkId = improvementResults[k].benchmarkId) =>
        improvementResults[i].canonicalBenchmarkBaseModelAccuracy
          = {improvementResults[k].accuracy}

----------------------------------------------------------------------------
\* an accuracy of exactly 1.0%, or metrics without an accuracy metric
AtBoundary(j) == AccuracyOf(j) = {1000} \/ AccuracyOf(j) = {}

(* C25  Threshold boundary and missing accuracy: a job whose accuracy is      *)
(* exactly 1.0%, or that has metrics without an accuracy metric, is reported  *)
(* for its pool only when no job of the pool exceeds 1.0% and it has the      *)
(* smallest effective timestamp of the pool.                                  *)
ThresholdBoundary ==
  ViewRead =>
    \A i \in 1..Len(data) :
      LET triple == <<data[i].agent_name, data[i].model_name, data[i].benchmark_name>>
      IN  \A j \in Pool(triple) :
            (RowReports(data[i], j) /\ AtBoundary(j)) =>
              \A k \in Pool(triple) :
                /\ ~MeetsThreshold(k)
                /\ EffectiveTimestamp(j) <= EffectiveTimestamp(k)

\* a job at exactly 1.0% reported as the earliest of a pool whose later job has no accuracy
ThresholdBoundaryWitness ==
  /\ Answered("benchmark-results")
  /\ \E triple \in Pools :
       \E j, k \in Pool(triple) :
         /\ AccuracyOf(j) = {1000}
         /\ AccuracyOf(k) = {}
         /\ EffectiveTimestamp(j) < EffectiveTimestamp(k)
         /\ \E i \in RowsOf(triple) : RowReports(data[i], j)

----------------------------------------------------------------------------
(* C27  Every base accuracy of a result comes from a job run by the result's  *)
(* own agent: it is the accuracy of a job of the resolved base model by that  *)
(* agent, and absent when only other agents ran the base model.               *)
SameAgentBase ==
  Answered("leaderboard-pivoted-with-improvement") =>
    \A i \in 1..Len(improvementResults) :
      \A v \in Variants(improvementResults[i], improvementResults[i]) :
        LET own == {j \in ModelJobs(v[2]) : j.agent_id = improvementResults[i].agentId}
        IN  /\ own = {} => v[1] = {}
            /\ v[1] # {} => \E j \in own : AccuracyOf(j) = v[1]

\* the base model and its canonical model were run by the other agent only, at 80%
SameAgentBaseWitness ==
  /\ Answered("leaderboard-pivoted-with-improvement")
  /\ \E i \in 1..Len(improvementResults) :
       LET result == improvementResults[i]
       IN  /\ result.baseModelId # {}
           /\ CanonicalBaseRef(result) # BaseRef(result)
           /\ \E j \in ModelJobs(BaseRef(result)) :
                j.agent_id # result.agentId /\ AccuracyOf(j) = {80000}
           /\ \E j \in ModelJobs(CanonicalBaseRef(result)) :
                j.agent_id # result.agentId /\ AccuracyOf(j) = {80000}
           /\ NoBaseAccuracy(result)

----------------------------------------------------------------------------
\* the benchmark a duplicate_of chain ultimately leads to; `seen` stops a cycle
RECURSIVE ChainEnd(_, _)
ChainEnd(b, seen) ==
  LET next == {c \in benchmarks : b.duplicate_of = {c.id}} \ seen
  IN  IF next = {} THEN b ELSE ChainEnd(CHOOSE c \in next : TRUE, seen \cup {b})

\* the (agent name, model name, name of the end of the benchmark's chain) triple of a job
ChainTriple(j) == <<AgentOf(j).name, ModelOf(j).name, ChainEnd(BenchmarkOf(j), {}).name>>

(* C24  Canonical resolution reaches the end of the duplicate_of chain: the   *)
(* jobs of one (agent, model) on the benchmarks of one chain, of any length,  *)
(* compete for one row, and that row is reported under the name of the        *)
(* benchmark the chain ultimately leads to.                                   *)
ChainResolution ==
  Answered("leaderboard-pivoted-with-improvement") =>
    /\ \A j \in QualifyingJobs : RowsOf(ChainTriple(j)) # {}
    /\ \A j, k \in QualifyingJobs :
         (ChainTriple(j) = ChainTriple(k) /\ Reported(j) /\ Reported(k)) => j = k

----------------------------------------------------------------------------
\* what the row says of its model is what the models table says of the model `modelId`
DescribesModel(row) ==
  LET m == ModelById(row.modelId)
      base == {x \in models : m.base_model_id = {x.id}}
      canonical == {x \in models : m.duplicate_of = {x.id}}
  IN  /\ row.modelName = m.name
      /\ row.baseModelName = (IF base = {} THEN "None" ELSE (CHOOSE x \in base : TRUE).name)
      /\ row.canonicalModelName =
           (IF canonical = {} THEN m.name ELSE (CHOOSE x \in canonical : TRUE).name)
      /\ row.modelCreatedAt = FormatOptional(m.creation_time)

(* C26  Row/model integrity: every benchmark cell of a row of the             *)
(* pivoted-with-improvement answer comes from a job of the model whose id the *)
(* row carries in modelId, and baseModelName, canonicalModelName and          *)
(* modelCreatedAt of the row describe that model, also when registered models *)
(* share a name.                                                              *)
RowModelIntegrity ==
  Answered("leaderboard-pivoted-with-improvement") =>
    \A k \in 1..Len(improvementResponse) :
      LET row == improvementResponse[k]
      IN  /\ DescribesModel(row)
          /\ \A n \in DOMAIN row.benchmarks :
               \E j \in QualifyingJobs :
                 /\ j.model_id = row.modelId
                 /\ j.benchmark_id = row.benchmarks[n].sourceBenchmarkId
                 /\ row.benchmarks[n].accuracy = Nullish(AccuracyOf(j), 0)

----------------------------------------------------------------------------
(* C21  Snapshot consistency under concurrent ingestion: the answer of one    *)
(* pivoted-with-improvement request is an answer the derivation gives on the  *)
(* content the store had at one single instant between the start of the       *)
(* request and its answer.                                                    *)
SnapshotConsistency ==
  Answered("leaderboard-pivoted-with-improvement") => improvementResponse \in snapshotAnswers


----------------------------------------------------------------------------
(* The view mode of the Leaderboard page *)

\* the rows of pivotedData, by position, that have a cell for the selected benchmark
WithBenchmark ==
  {i \in 1..Len(pivotedData) : topPerformerBenchmark \in DOMAIN pivotedData[i].benchmarks}

\* the rows that carry an evaluation end time or a model creation time
WithTimestamp ==
  {i \in 1..Len(pivotedData) :
     pivotedData[i].latestEvalEndedAt # NULL \/ pivotedData[i].modelCreatedAt # NULL}

AccuracyAt(i) == pivotedData[i].benchmarks[topPerformerBenchmark].accuracy

\* the effective timestamp of a row of WithTimestamp, as the hour it names
TimeAt(i) ==
  DateOf(Get(IF pivotedData[i].latestEvalEndedAt # NULL
             THEN pivotedData[i].latestEvalEndedAt ELSE pivotedData[i].modelCreatedAt))

\* how many of m rows a count of k keeps ("All" keeps every one)
Kept(k, m) == IF k = MAX_SAFE_INTEGER \/ k > m THEN m ELSE k

\* S is a choice of the topN rows of highest accuracy among the rows with the benchmark
IsTopChoice(S) ==
  /\ Cardinality(S) = Kept(topN, Cardinality(WithBenchmark))
  /\ \A i \in S, j \in WithBenchmark \ S : AccuracyAt(i) >= AccuracyAt(j)

\* R is a choice of the recentN rows of newest effective timestamp
IsRecentChoice(R) ==
  /\ Cardinality(R) = Kept(recentN, Cardinality(WithTimestamp))
  /\ \A i \in R, j \in WithTimestamp \ R : TimeAt(i) >= TimeAt(j)

\* C28: on the "filtered" tab the rows displayed are exactly the union of the topN rows of
\* highest accuracy on the selected benchmark (among the rows that have it) and the
\* recentN rows of newest effective timestamp, each (model, agent) pair once and every
\* row one of the fetched rows; with topN = 0 and recentN = 0 nothing is shown, with
\* "All" for both nothing is cut; on the "all" tab the fetched rows are returned as they
\* are, whatever topN and recentN.
FilteredViewIsUnion ==
  LET displayed == filteredByViewMode
  IN  /\ activeTab = "all" => displayed = pivotedData
      /\ activeTab = "filtered" =>
           /\ \E S \in {S \in SUBSET WithBenchmark : IsTopChoice(S)},
                 R \in {R \in SUBSET WithTimestamp : IsRecentChoice(R)} :
                Range(displayed) = {pivotedData[i] : i \in S \cup R}
           /\ \A p, q \in 1..Len(displayed) :
                (/\ displayed[p].modelName = displayed[q].modelName
                 /\ displayed[p].agentName = displayed[q].agentName) => p = q
           /\ (topN = 0 /\ recentN = 0) => displayed = << >>
           /\ (topN = MAX_SAFE_INTEGER /\ recentN = MAX_SAFE_INTEGER) =>
                Range(displayed) = {pivotedData[i] : i \in WithBenchmark \cup WithTimestamp}

\* three rows are fetched, at least two of them with the selected benchmark and with
\* different accuracies; Top 1 + Recent 1 shows two of them
FilteredViewIsUnionWitness ==
  /\ activeTab = "filtered"
  /\ topN = 1
  /\ recentN = 1
  /\ Len(pivotedData) = 3
  /\ \E i, j \in WithBenchmark : AccuracyAt(i) > AccuracyAt(j)
  /\ Len(filteredByViewMode) = 2

\* the rows of models without evaluations
WithoutEvaluations == {i \in 1..Len(pivotedData) : DOMAIN pivotedData[i].benchmarks = {}}

\* C29: a row with no benchmark results is never one of the Top N Performers; with a
\* modelCreatedAt it is a candidate of the N Most Recent by that time (it is in the set
\* whenever fewer than recentN other rows carry a timestamp at least as new, so always
\* under "All"); a row with neither latestEvalEndedAt nor modelCreatedAt is never in the
\* N Most Recent.
ZeroEvalRows ==
  /\ \A i \in WithoutEvaluations :
       /\ pivotedData[i] \notin Range(topPerformers)
       /\ pivotedData[i].latestEvalEndedAt = NULL
       /\ i \in WithTimestamp =>
            /\ TimeAt(i) = DateOf(Get(pivotedData[i].modelCreatedAt))
            /\ (recentN = MAX_SAFE_INTEGER
                \/ Cardinality({j \in WithTimestamp \ {i} : TimeAt(j) >= TimeAt(i)}) < recentN)
                 => pivotedData[i] \in Range(mostRecent)
  /\ \A i \in 1..Len(pivotedData) :
       i \notin WithTimestamp => pivotedData[i] \notin Range(mostRecent)

\* Top 1 + Recent 50 shows an evaluated model as top performer and a model without
\* evaluations by its creation time, while another model without evaluations and
\* without creation time is left out
ZeroEvalRowsWitness ==
  /\ activeTab = "filtered"
  /\ topN = 1
  /\ recentN = 50
  /\ \E i \in WithoutEvaluations :
       /\ i \in WithTimestamp
       /\ pivotedData[i] \in Range(mostRecent)
       /\ pivotedData[i] \in Range(filteredByViewMode)
  /\ \E j \in WithoutEvaluations :
       j \notin WithTimestamp /\ pivotedData[j] \notin Range(filteredByViewMode)
  /\ \E k \in WithBenchmark : pivotedData[k] \in Range(topPerformers)


----------------------------------------------------------------------------
(* The benchmark filter of the Leaderboard page *)

\* a load of the page's query settles in this step
LoadSettles == lastRequest = "leaderboard-pivoted-with-improvement" /\ lastRequest' = "none"

\* the default visible benchmarks that are columns of `rows`, in the order of the defaults
DefaultsAmong(rows) ==
  LET IsColumn(b) == \E i \in 1..Len(rows) : b \in DOMAIN rows[i].benchmarks
  IN  SelectSeq(DEFAULT_VISIBLE_BENCHMARKS, IsColumn)

\* selectedBenchmarks with benchmark b taken out, or put at its end
Toggled(b) ==
  LET Other(x) == x # b
  IN  IF \E i \in 1..Len(selectedBenchmarks) : selectedBenchmarks[i] = b
      THEN SelectSeq(selectedBenchmarks, Other)
      ELSE selectedBenchmarks \o <<b>>

\* C30: the default benchmark selection is applied once.  The first load that delivers
\* rows sets selectedBenchmarks to the default visible benchmarks that are available in
\* those rows; no later load, whatever it delivers, changes selectedBenchmarks; every
\* other change of it is a user's toggle of one available benchmark, a clear (empty) or
\* a reset (the defaults available in the rows shown).
DefaultsAppliedOnce ==
  [][/\ LoadSettles =>
          IF ~hasInitializedBenchmarks /\ pivotedData' # << >>
          THEN selectedBenchmarks' = DefaultsAmong(pivotedData')
          ELSE selectedBenchmarks' = selectedBenchmarks
     /\ (~LoadSettles /\ selectedBenchmarks' # selectedBenchmarks) =>
          \/ selectedBenchmarks' = << >>
          \/ selectedBenchmarks' = DefaultsAmong(pivotedData)
          \/ \E i \in 1..Len(pivotedData) : \E b \in DOMAIN pivotedData[i].benchmarks :
               selectedBenchmarks' = Toggled(b)]_vars

\* a refetch has been answered with rows that bring a new default benchmark, after the
\* defaults were applied and the user chose a selection of their own
DefaultsAppliedOnceWitness ==
  /\ Answered("leaderboard-pivoted-with-improvement")
  /\ hasInitializedBenchmarks
  /\ pivotedData # << >>
  /\ DefaultsAmong(improvementResponse) # DefaultsAmong(pivotedData)
  /\ selectedBenchmarks \notin {<< >>, DefaultsAmong(pivotedData), DefaultsAmong(improvementResponse)}

====
